---- MODULE Spec2Model ----
\* aw-man: the manager loop, archives, pages, loadable images, extractors,
\* load workers and archive cleanup, modelled from internal/manager.
EXTENDS Integers, Sequences, FiniteSets, TLC

\* ---------------------------------------------------------------------
\* Bounds of the model
\* ---------------------------------------------------------------------
\* user commands the GUI sends in a run where it may send any command
MaxCmds == 1
\* size events the GUI sends
MaxSizes == 1
\* page turns the GUI sends in a run where it only turns pages
MaxTurns == 4
MaxResizes == 2
\* commands the GUI sends in a run where it moves and toggles manga mode
MaxMoves == 3
\* commands the GUI sends in a run where it only sends absolute jumps
MaxJumps == 2
\* connections the socket accepts
MaxReqs == 2
\* page turns while the load workers are watched
MaxLoads == 2
\* page turns while the starts of loads are watched
MaxStarts == 1
\* the commands of the GUI that toggles manga mode and turns pages
MaxToggles == 2
\* the commands of the GUI that moves between archives and to the ends of them
MaxCloses == 2
\* the texts typed into the jump dialog
MaxTexts == 2
\* archives open at once, and pages a single add moves by, where add is
\* studied on its own
MaxOpen == 3
MaxStep == 4
\* the length of the strings compared
MaxLen == 2
\* the sides of the images and of the boxes CalculateImageBounds is given
MaxSide == 8
MaxBox == 3

\* ---------------------------------------------------------------------
\* Configuration (config.Conf)
\* ---------------------------------------------------------------------
PreloadAhead == 1
PreloadBehind == 1
LoadThreads == 1
UpscalePreviousChapters == FALSE
\* m.upscaling is never assigned by RunManager and no command toggles it
upscaling == FALSE

\* ---------------------------------------------------------------------
\* The directory the program is started in
\* ---------------------------------------------------------------------
ZP == <<0, 0>>
Ent(p, ok, dec, sz) == [path |-> p, ok |-> ok, dec |-> dec, sz |-> sz]
NoEnt == Ent(0, FALSE, FALSE, ZP)
Big == <<4, 2>>
Small == <<1, 1>>

\* the archive files: dir is the directory a file lies in, the files of one
\* directory are listed in natural order of their names; an entry is
\* (in-archive path, extraction succeeds, decode succeeds, size of the image);
\* a file of kind unknown cannot be read as an archive: the walk that lists
\* it fails, openArchive leaves a.kind unknown and the archive has no pages
Files ==
  << [dir |-> 1, kind |-> "zip",
      ents |-> << Ent(1, TRUE, TRUE, Big), Ent(2, TRUE, TRUE, Big),
                  Ent(3, TRUE, TRUE, Small) >>],
     [dir |-> 1, kind |-> "zip",
      ents |-> << Ent(2, TRUE, TRUE, Big), Ent(1, FALSE, TRUE, Big),
                  Ent(3, TRUE, TRUE, Small) >>],
     [dir |-> 1, kind |-> "unknown", ents |-> << >>],
     [dir |-> 2, kind |-> "zip",
      ents |-> << Ent(1, TRUE, TRUE, Small), Ent(1, TRUE, FALSE, Small) >>] >>
\* image files of a directory opened directly
DirImgs == << Ent(1, TRUE, TRUE, Big), Ent(2, TRUE, FALSE, Small) >>
\* sizes the window can take
Sizes == { <<2, 2>> }
Resizes == { <<2, 2>>, <<1, 1>> }

\* how the program is started: on archive file f, or on image k of the
\* directory of images, with manga mode as the command line gives it
Start(f, k, mg) == [f |-> f, k |-> k, mg |-> mg]
Starts == { Start(f, 0, mg) : f \in 1..Len(Files), mg \in BOOLEAN }
            \cup { Start(0, k, mg) : k \in 1..Len(DirImgs), mg \in BOOLEAN }

\* ---------------------------------------------------------------------
\* CalculateImageBounds and maybeScaleImage
\* ---------------------------------------------------------------------
Min(a, b) == IF a <= b THEN a ELSE b
Max(a, b) == IF a >= b THEN a ELSE b

\* scale = min(cx/ix, cy/iy); nx = int(scale*ix); ny = int(scale*iy)
\* float64 arithmetic on the small integers of sizes: a float64 has 53 bits,
\* a quotient and a product are rounded to the nearest one, ties to even
RECURSIVE Pow2(_)
Pow2(k) == IF k = 0 THEN 1 ELSE 2 * Pow2(k - 1)
\* 2^k modulo m, by squaring
RECURSIVE PowMod(_, _)
PowMod(k, m) ==
  IF k = 0 THEN 1 % m
  ELSE LET h == PowMod(k \div 2, m) IN (((h * h) % m) * (IF k % 2 = 1 THEN 2 ELSE 1)) % m
\* the least t with x * 2^t >= i
RECURSIVE Shift(_, _)
Shift(x, i) == IF x >= i THEN 0 ELSE 1 + Shift(2 * x, i)
\* the greatest k with 2^k <= n
RECURSIVE Log2(_)
Log2(n) == IF n < 2 THEN 0 ELSE 1 + Log2(n \div 2)
\* int(scale * float64(j)) for scale := float64(x) / float64(i), 0 <= x < i.
\* The quotient is kept as m / 2^e with 2^52 <= m < 2^53 and m the nearest
\* integer to x * 2^e / i; rem is what the rounding cut off, in units of
\* 1 / i. The product differs from x * j / i by rem * j / (i * 2^e): it can be
\* rounded below an integer only when x * j / i is that integer n and the
\* quotient was rounded down by more than half the distance between n and
\* the float64 below n
FloatScale(x, i, j) ==
  LET t == Shift(x, i)
      e == t + 52
      rem == (x * PowMod(e, i)) % i
      odd == (x * PowMod(e, 2 * i)) % (2 * i) >= i
      down == 2 * rem < i \/ (2 * rem = i /\ ~odd)
      n == (x * j) \div i
      k == Log2(n)
      half == t + k - 1 - (IF n = Pow2(k) THEN 1 ELSE 0)
      below == IF half >= 0 THEN rem * j > i * Pow2(half)
                            ELSE rem * j * Pow2(0 - half) > i
  IN IF x = 0 THEN 0
     ELSE IF (x * j) % i = 0 /\ n >= 1 /\ rem > 0 /\ down /\ below THEN n - 1
     ELSE n

\* CalculateImageBounds with the scale of the height alone
CalculateImageBoundsHeight(img, size) ==
  LET ix == img[1] iy == img[2] cx == size[1] cy == size[2] IN
  IF ix > cx \/ iy > cy
    THEN << FloatScale(cy, iy, ix), FloatScale(cy, iy, iy) >>
    ELSE << ix, iy >>

\* math.Min of the two quotients is the quotient that is less as a fraction:
\* two different fractions of integers this small are different float64
CalculateImageBounds(img, size) ==
  LET ix == img[1] iy == img[2] cx == size[1] cy == size[2] IN
  IF ix > cx \/ iy > cy
    THEN IF cx * iy <= cy * ix
           THEN << FloatScale(cx, ix, ix), FloatScale(cx, ix, iy) >>
           ELSE << FloatScale(cy, iy, ix), FloatScale(cy, iy, iy) >>
    ELSE << ix, iy >>

NoMsi == [has |-> FALSE, b |-> ZP, ob |-> ZP]
NoImg == [has |-> FALSE, b |-> ZP]

maybeScaleImage(img, targetSize) ==
  [has |-> TRUE,
   b |-> IF targetSize = ZP THEN img.b ELSE CalculateImageBounds(img.b, targetSize),
   ob |-> img.b]

\* ---------------------------------------------------------------------
\* Loadable images
\* ---------------------------------------------------------------------
\* liState, in the order of the iota
LiOrd(s) == CASE s = "unwritten" -> 0 [] s = "loadable" -> 1 [] s = "loading" -> 2
              [] s = "loaded" -> 3 [] s = "failed" -> 4

\* loadCh is a buffered channel of capacity one. gen names the channel the
\* image currently holds, buf is that channel's buffer, full the detached
\* channels that hold a payload and still have a worker that will send on them.
\* ws are the load workers that have not closed their completion handle, in
\* start order: lastLoad is closed exactly when ws is empty.
\* live: no later load and no unload has happened since the worker was started;
\* a buffered payload carries the live flag of its worker, stale records that
\* the manager accepted a payload that was not live.
NoBuf == [full |-> FALSE, m |-> NoMsi, live |-> FALSE]
NewLi(st) == [state |-> st, msi |-> NoMsi, tsz |-> ZP, gen |-> 0, buf |-> NoBuf,
              full |-> {}, ws |-> << >>, stale |-> FALSE]

LiCanLoad(li) == LiOrd(li.state) <= LiOrd("loadable")
LiReadyToLoad(li) == li.state = "loadable"
LiHasImageData(li) == li.state = "loaded" \/ (li.state = "loading" /\ li.msi.has)
LiIsLoading(li) == li.state = "loading"

LiMarkLoaded(li, msi) ==
  [li EXCEPT !.msi = msi, !.state = IF msi.has THEN "loaded" ELSE "failed"]

\* workers that have not yet sent on channel g
Unsent(li, g) == { k \in 1..Len(li.ws) : li.ws[k].ch = g /\ li.ws[k].pc # "fin" }

\* unload that keeps the load channel of a running load
LiNewChKeeps(li) == li

\* li.loadCh = make(chan maybeScaledImage, 1)
LiNewCh(li) ==
  IF Unsent(li, li.gen) = {}
    THEN [li EXCEPT !.buf = NoBuf]
    ELSE [li EXCEPT !.buf = NoBuf, !.gen = li.gen + 1,
                    !.full = IF li.buf.full THEN li.full \cup {li.gen} ELSE li.full]

\* close(li.cancelLoadCh); li.cancelLoadCh = make(chan struct{})
LiCancel(li) ==
  [li EXCEPT !.ws = [k \in 1..Len(li.ws) |-> [li.ws[k] EXCEPT !.can = TRUE]]]

\* the loads started so far are no longer the most recent, or are detached
Supersede(li) ==
  [li EXCEPT !.ws = [k \in 1..Len(li.ws) |-> [li.ws[k] EXCEPT !.live = FALSE]],
             !.buf.live = FALSE]

\* the tail of unload: cancel the running load, drop the image
LiDrop(a) ==
  [Supersede(IF Len(a.ws) = 0 THEN a ELSE LiCancel(a))
     EXCEPT !.state = "loadable", !.msi = NoMsi]

\* unload without "li.loadCh = make(chan maybeScaledImage, 1)"
LiUnloadKeepsCh(li) ==
  IF li.state = "failed" \/ li.state = "unwritten" THEN li ELSE LiDrop(li)

\* unload without "if li.state == failed" in its first test
LiUnloadFailed(li) ==
  IF li.state = "unwritten" THEN li
  ELSE LiDrop(IF li.state = "loading" THEN LiNewCh(li) ELSE li)

LiUnload(li) ==
  IF li.state = "failed" \/ li.state = "unwritten" THEN li
  ELSE LiDrop(IF li.state = "loading" THEN LiNewCh(li) ELSE li)

\* go loadAndScale(li.file, targetSize, li.loadCh, li.cancelLoadCh, lastLoad, thisLoad, img)
NewWorker(li, targetSize, img) ==
  [pc |-> "pre", ch |-> li.gen, can |-> FALSE, tsz |-> targetSize, img |-> img,
   out |-> NoMsi, live |-> TRUE]

\* the go statement of load, after the earlier loads are superseded
LiStart(o, li, targetSize, img) ==
  [o EXCEPT !.state = "loading", !.tsz = targetSize,
            !.ws = Append(o.ws, NewWorker(li, targetSize, img))]

LiLoad(li, targetSize, img) == LiStart(Supersede(li), li, targetSize, img)

\* the receive of a select with a default case
LiPoll(li) ==
  IF li.state = "loading" /\ li.buf.full
    THEN [LiMarkLoaded(li, li.buf.m) EXCEPT !.buf = NoBuf,
                                            !.stale = li.stale \/ ~li.buf.live]
    ELSE li

\* invalidateDownscaled after its poll: a loaded image of the wrong bounds
LiDropLoaded(b, sz) ==
  IF b.state = "loaded" /\ b.msi.b # CalculateImageBounds(b.msi.ob, sz)
    THEN LiUnload(b) ELSE b
\* invalidateDownscaled without "if li.state == loading && li.targetSize != sz"
LiDropLoadingKeeps(a, sz) == LiDropLoaded(a, sz)
\* invalidateDownscaled after its poll: a load for another target size
LiDropLoading(a, sz) ==
  LiDropLoaded(IF a.state = "loading" /\ a.tsz # sz THEN LiUnload(a) ELSE a, sz)

LiInvalidateDownscaled(li, sz) ==
  IF LiOrd(li.state) <= LiOrd("loadable") \/ li.state = "failed" THEN li
  ELSE IF li.tsz = ZP THEN li
  ELSE LiDropLoading(LiPoll(li), sz)

LiRescale(li, targetSize, original) ==
  IF li.state # "loaded" \/ ~original.has THEN li
  ELSE LiLoad(li, targetSize, original)

\* maybeRescale after invalidateDownscaled
LiRescaleLoaded(a, sz) ==
  IF a.state # "loaded" THEN a
  ELSE IF a.msi.b = CalculateImageBounds(a.msi.ob, sz) THEN a
  ELSE LiRescale(a, sz, [has |-> a.msi.has, b |-> a.msi.b])

\* loadSyncUnscaled for a file that decodes as e tells; the test of loading
\* that waits for the payload comes after the return for loaded or loading
loadSyncUnscaled(li, e) ==
  IF li.state = "loaded" \/ li.state = "loading" THEN li
  ELSE [li EXCEPT !.tsz = ZP,
                  !.state = IF e.dec THEN "loaded" ELSE "failed",
                  !.msi = IF e.dec THEN [has |-> TRUE, b |-> e.sz, ob |-> e.sz] ELSE @]

LiMaybeRescale(li, sz) ==
  IF sz = ZP THEN li ELSE LiRescaleLoaded(LiInvalidateDownscaled(li, sz), sz)

\* ---------------------------------------------------------------------
\* Pages
\* ---------------------------------------------------------------------
\* extractCh: buffered channel of capacity one; sent and closes count the
\* sends and the closes ever made on it
\* sac: a value was sent after the close, or while the buffer was full
NewEch == [buf |-> "none", sent |-> 0, closes |-> 0, sac |-> FALSE]
ClosedEch == [buf |-> "none", sent |-> 0, closes |-> 1, sac |-> FALSE]

newArchivePage(path) ==
  [path |-> path, state |-> "extracting", ech |-> NewEch, ent |-> NoEnt,
   deletable |-> TRUE, normal |-> NewLi("unwritten"), upscale |-> "unwritten"]

newDirectoryPage(e) ==
  [path |-> e.path, state |-> "extracted", ech |-> ClosedEch, ent |-> e,
   deletable |-> FALSE, normal |-> NewLi("loadable"), upscale |-> "unwritten"]

\* first result of page.CanLoad; Get(upscaling) is the normal image
PageCanLoad(p) ==
  IF p.state = "extracting" THEN TRUE ELSE LiCanLoad(p.normal)

\* MarkExtracted that fails the normal image only
MarkExtractedNormal(p, success) ==
  IF success
    THEN [p EXCEPT !.state = "extracted", !.normal.state = "loadable"]
    ELSE [p EXCEPT !.state = "upscaled", !.normal.state = "failed"]

MarkExtracted(p, success) ==
  IF success
    THEN [p EXCEPT !.state = "extracted", !.normal.state = "loadable"]
    ELSE [p EXCEPT !.state = "upscaled", !.normal.state = "failed",
                   !.upscale = "failed"]

\* p.upscale is unwritten or failed, so its unload returns at once
PageUnload(p) == [p EXCEPT !.normal = LiUnload(p.normal)]
PageInvalidateDownscaled(p, sz) ==
  [p EXCEPT !.normal = LiInvalidateDownscaled(p.normal, sz)]
\* Get(upscaling).Load(targetSize)
PageLoad(p, sz) == [p EXCEPT !.normal = LiLoad(p.normal, sz, NoImg)]
PageMaybeRescale(p, sz) == [p EXCEPT !.normal = LiMaybeRescale(p.normal, sz)]

\* a receive on extractCh can proceed: a buffered value or a closed channel
EchReady(e) == e.buf # "none" \/ e.closes > 0
\* the value received: the buffered one, or the zero value of a closed channel
EchValue(e) == e.buf = "t"
EchTake(e) == [e EXCEPT !.buf = "none"]

\* ---------------------------------------------------------------------
\* Archives
\* ---------------------------------------------------------------------
PathLeq(a, b) == a <= b
Paths(ents) == [i \in 1..Len(ents) |-> ents[i].path]

\* extractionMap[p.inArchivePath] = p, for the pages in order
ExtractionMap(pages) ==
  { <<pages[i].path, i>> : i \in { j \in 1..Len(pages) :
        \A k \in (j+1)..Len(pages) : pages[k].path # pages[j].path } }
MapHas(m, path) == \E e \in m : e[1] = path
MapGet(m, path) == (CHOOSE e \in m : e[1] = path)[2]
MapDel(m, path) == { e \in m : e[1] # path }

\* the archive object openArchive returns and its initial page;
\* f = 0 is the directory, opened on image k (k = 0: on the directory itself)
\* the pages of the listing, in natural order of their paths
ArchivePages(f, paths) ==
  [i \in 1..Len(paths) |->
     IF f = 0 THEN newDirectoryPage(DirImgs[i]) ELSE newArchivePage(paths[i])]
\* initialPage for n pages
InitialPage(f, k, n, trigger) ==
  IF n > 0 /\ trigger = "waitingOnLast" THEN n - 1
  ELSE IF f = 0 /\ k > 0 THEN k - 1 ELSE 0
\* fastPage as an index from one, 0 for nil
FastPage(n, ip, trigger) == IF n > 0 /\ trigger # "preloading" THEN ip + 1 ELSE 0
\* the extractor goroutine before its first step
NewExtractor(f, fast) ==
  [pc |-> IF fast > 0 /\ f # 0 THEN "fast" ELSE "full", i |-> 1, fast |-> fast]
ArchiveAt(f, trigger, pages, ip) ==
  [a |-> [f |-> f, kind |-> IF f = 0 THEN "directory" ELSE Files[f].kind,
          pages |-> pages, closed |-> FALSE, exdone |-> FALSE,
          emap |-> IF f = 0 THEN {} ELSE ExtractionMap(pages),
          ex |-> NewExtractor(f, FastPage(Len(pages), ip, trigger)),
          cl |-> [pc |-> "idle", i |-> 1],
          tmp |-> TRUE],
   ip |-> ip]
ArchiveOf(f, k, trigger, pages) ==
  ArchiveAt(f, trigger, pages, InitialPage(f, k, Len(pages), trigger))
NewArchive(f, k, trigger) ==
  ArchiveOf(f, k, trigger,
            ArchivePages(f, SortSeq(Paths(IF f = 0 THEN DirImgs ELSE Files[f].ents),
                                    PathLeq)))

\* ---------------------------------------------------------------------
\* The manager's view: w holds the manager's fields and every archive object
\* ---------------------------------------------------------------------
PI(a, p) == [a |-> a, p |-> p]
gt(a, b) == IF a.a # b.a THEN a.a > b.a ELSE a.p > b.p

Obj(w, a) == w.objs[w.archives[a + 1]]
PageCount(w, a) == Len(Obj(w, a).pages)
\* archive.Get returns a page
HasPage(w, pi) == pi.a >= 0 /\ pi.a < Len(w.archives)
                  /\ pi.p >= 0 /\ pi.p < PageCount(w, pi.a)
\* manager.get panics: no such archive, or no such page and not slot 0
GetPanics(w, pi) == \/ pi.a < 0 \/ pi.a >= Len(w.archives)
                    \/ (~HasPage(w, pi) /\ pi.p # 0)
GetPage(w, pi) == Obj(w, pi.a).pages[pi.p + 1]
SetPage(w, pi, p) ==
  [w EXCEPT !.objs[w.archives[pi.a + 1]].pages[pi.p + 1] = p]

\* the forward loop without "if a.PageCount() == 0 { pi.p-- }": an archive
\* without pages takes no slot
RECURSIVE addFwdNoSlot(_, _)
addFwdNoSlot(w, pi) ==
  IF pi.a < Len(w.archives) - 1 /\ pi.p >= PageCount(w, pi.a) /\ pi.p > 0
    THEN addFwdNoSlot(w, PI(pi.a + 1, pi.p - PageCount(w, pi.a)))
    ELSE pi

RECURSIVE addFwd(_, _)
addFwd(w, pi) ==
  IF pi.a < Len(w.archives) - 1 /\ pi.p >= PageCount(w, pi.a) /\ pi.p > 0
    THEN LET n == PageCount(w, pi.a) IN
         addFwd(w, PI(pi.a + 1, pi.p - n - (IF n = 0 THEN 1 ELSE 0)))
    ELSE pi
RECURSIVE addBwd(_, _)
addBwd(w, pi) ==
  IF pi.a > 0 /\ pi.p < 0
    THEN LET n == PageCount(w, pi.a - 1) IN
         addBwd(w, PI(pi.a - 1, pi.p + n + (IF n = 0 THEN 1 ELSE 0)))
    ELSE pi
\* add whose flag is "pi.p >= 0 && pi.p < PageCount()": slot 0 of an archive
\* without pages is not valid
addNoSlotZero(w, pi, x) ==
  LET r == addBwd(w, addFwd(w, PI(pi.a, pi.p + x))) IN
  [pi |-> r, ok |-> r.p >= 0 /\ r.p < PageCount(w, r.a)]

add(w, pi, x) ==
  LET r == addBwd(w, addFwd(w, PI(pi.a, pi.p + x))) IN
  [pi |-> r, ok |-> r.p >= 0 /\ (r.p = 0 \/ r.p < PageCount(w, r.a))]

\* the smallest identifier no archive object has
FreshId(w) == CHOOSE i \in 1..(Cardinality(DOMAIN w.objs) + 1) : i \notin DOMAIN w.objs
AddObj(w, id, a) == [i \in DOMAIN w.objs \cup {id} |-> IF i = id THEN a ELSE w.objs[i]]

\* archive.Close
Close(w, id) ==
  [w EXCEPT !.objs[id].closed = TRUE, !.objs[id].cl.pc = "wait", !.wg = w.wg + 1,
            !.dblclose = w.dblclose \/ w.objs[id].closed]

\* openArchive: a new archive object, its extractor started
Opened(w, id, na) ==
  [w |-> [w EXCEPT !.objs = AddObj(w, id, na.a)], id |-> id, ip |-> na.ip]
openArchive(w, f, k, trigger) == Opened(w, FreshId(w), NewArchive(f, k, trigger))

\* findBeforeAndAfterInDir: the neighbours of archive file f among the siblings
AfterInDir(f) ==
  IF f < Len(Files) /\ Files[f + 1].dir = Files[f].dir THEN f + 1 ELSE 0
BeforeInDir(f) ==
  IF f > 1 /\ Files[f - 1].dir = Files[f].dir THEN f - 1 ELSE 0

\* openNextArchive that returns nil, m.archives as it was
appendNothing(w, r) == [ok |-> FALSE, w |-> w]
\* m.archives = append(m.archives, na)
appendArchive(w, r) ==
  [ok |-> TRUE, w |-> [r.w EXCEPT !.archives = Append(w.archives, r.id)]]
\* m.archives = append([]*archive{na}, m.archives...); m.c.a++; m.nl.a++; m.nu.a++
prependArchive(w, r) ==
  [ok |-> TRUE,
   w |-> [r.w EXCEPT !.archives = <<r.id>> \o w.archives,
                     !.c.a = w.c.a + 1, !.nl.a = w.nl.a + 1, !.nu.a = w.nu.a + 1]]

\* the result's ok is false where the code returns nil
openNextArchive(w, ot) ==
  LET a == w.objs[w.archives[Len(w.archives)]] IN
  IF a.kind # "directory" /\ AfterInDir(a.f) # 0
    THEN appendArchive(w, openArchive(w, AfterInDir(a.f), 0, ot))
    ELSE [ok |-> FALSE, w |-> w]

openPreviousArchive(w, ot) ==
  LET a == w.objs[w.archives[1]] IN
  IF a.kind # "directory" /\ BeforeInDir(a.f) # 0
    THEN prependArchive(w, openArchive(w, BeforeInDir(a.f), 0, ot))
    ELSE [ok |-> FALSE, w |-> w]

\* a get whose result is used; remembers that it would have panicked
Got(w, pi) == [w EXCEPT !.panic = w.panic \/ GetPanics(w, pi)]

NoSImg == [k |-> "none", f |-> 0, p |-> 0, b |-> ZP]

\* the State before its image is chosen
baseState(w) ==
  [alen |-> PageCount(w, w.c.a), aname |-> Obj(w, w.c.a).f, manga |-> w.manga,
   pname |-> IF HasPage(w, w.c) THEN GetPage(w, w.c).path ELSE 0,
   pn |-> IF HasPage(w, w.c) THEN w.c.p + 1 ELSE 0,
   img |-> NoSImg, ob |-> ZP]
\* the image of the State; cp is the current page
imageState(w, base, cp) ==
  IF LiHasImageData(cp.normal)
    THEN [w EXCEPT !.s = [base EXCEPT
               !.img = [k |-> "page", f |-> base.aname, p |-> w.c.p, b |-> cp.normal.msi.b],
               !.ob = cp.normal.msi.ob],
             !.fiff = FALSE]
  ELSE IF PageCanLoad(cp) \/ LiIsLoading(cp.normal)
    THEN [w EXCEPT !.s = [base EXCEPT !.img = w.s.img, !.ob = w.s.ob]]
  ELSE IF w.fiff
    THEN [w EXCEPT !.s = [base EXCEPT
               !.img = [k |-> "first", f |-> 0, p |-> 0, b |-> ZP]]]
  ELSE [w EXCEPT !.s = base]
setState(w) ==
  IF ~HasPage(w, w.c) THEN [w EXCEPT !.s = baseState(w)]
  ELSE imageState(w, baseState(w), GetPage(w, w.c))
updateState(w) == setState(Got(w, w.c))

RECURSIVE closeHigh(_, _)
closeHigh(w, newEnd) ==
  LET ac == Len(w.archives) - 1 IN
  IF w.c.a < ac /\ newEnd.a < ac
    THEN closeHigh(Close([w EXCEPT !.archives = SubSeq(w.archives, 1, ac)],
                         w.archives[ac + 1]), newEnd)
    ELSE w
\* the second loop without "m.nl.a--"
RECURSIVE closeLowKeepsNl(_, _, _)
closeLowKeepsNl(w, newStart, firstUpscaled) ==
  IF w.c.a > 0 /\ newStart.a > 0 /\ firstUpscaled.a > 0
    THEN closeLowKeepsNl(Close([w EXCEPT !.archives = Tail(w.archives),
                                         !.c.a = w.c.a - 1, !.nu.a = w.nu.a - 1],
                               w.archives[1]),
                         PI(newStart.a - 1, newStart.p),
                         PI(firstUpscaled.a - 1, firstUpscaled.p))
    ELSE w
RECURSIVE closeLow(_, _, _)
closeLow(w, newStart, firstUpscaled) ==
  IF w.c.a > 0 /\ newStart.a > 0 /\ firstUpscaled.a > 0
    THEN closeLow(Close([w EXCEPT !.archives = Tail(w.archives),
                                  !.c.a = w.c.a - 1, !.nl.a = w.nl.a - 1,
                                  !.nu.a = w.nu.a - 1], w.archives[1]),
                  PI(newStart.a - 1, newStart.p),
                  PI(firstUpscaled.a - 1, firstUpscaled.p))
    ELSE w
\* lastUpscaled and firstUpscaled are copies of m.c made by the caller
closeUnusedArchives(w, newStart, newEnd, firstUpscaled, lastUpscaled) ==
  closeLow(closeHigh(w, newEnd), newStart, firstUpscaled)

\* the forward loop without its bound: the first page from nl on that can load
RECURSIVE findFwdUnbounded(_, _)
findFwdUnbounded(w, lastPreload) ==
  IF HasPage(w, w.nl) /\ PageCanLoad(GetPage(w, w.nl)) THEN [ret |-> TRUE, w |-> w]
  ELSE LET r == add(w, w.nl, 1) IN
       IF r.ok /\ HasPage(w, r.pi) THEN findFwdUnbounded([w EXCEPT !.nl = r.pi], lastPreload)
       ELSE [ret |-> FALSE, w |-> w]

\* the loops of findNextImageToLoad; ret: the function returned from the loop
RECURSIVE findFwd(_, _)
RECURSIVE findBwd(_, _)
\* the forward loop after openNextArchive
fwdOpened(w, o) ==
  IF o.ok THEN findFwd(o.w, add(o.w, o.w.c, PreloadAhead).pi)
  ELSE [ret |-> FALSE, w |-> w]
\* the forward loop after m.add(m.nl, 1)
fwdStep(w, r, lastPreload) ==
  IF r.ok
    THEN IF r.pi.a # w.c.a /\ ~w.manga THEN [ret |-> FALSE, w |-> w]
         ELSE findFwd([w EXCEPT !.nl = r.pi], lastPreload)
    ELSE IF w.manga THEN fwdOpened(w, openNextArchive(w, "preloading"))
         ELSE [ret |-> FALSE, w |-> w]
\* the body of the forward loop after m.get(m.nl)
fwdAt(w, lastPreload) ==
  IF HasPage(w, w.nl) /\ PageCanLoad(GetPage(w, w.nl)) THEN [ret |-> TRUE, w |-> w]
  ELSE fwdStep(w, add(w, w.nl, 1), lastPreload)
findFwd(w, lastPreload) ==
  IF gt(w.nl, lastPreload) THEN [ret |-> FALSE, w |-> w]
  ELSE fwdAt(Got(w, w.nl), lastPreload)

\* the backward loop after openPreviousArchive
bwdOpened(w, o) ==
  IF o.ok THEN findBwd(o.w, add(o.w, o.w.c, -PreloadBehind).pi)
  ELSE [ret |-> FALSE, w |-> w]
\* the backward loop after m.add(m.nl, -1)
bwdStep(w, r, firstPreload) ==
  IF r.ok
    THEN IF r.pi.a # w.c.a /\ ~w.manga /\ (~upscaling \/ ~UpscalePreviousChapters)
           THEN [ret |-> FALSE, w |-> w]
           ELSE findBwd([w EXCEPT !.nl = r.pi], firstPreload)
    ELSE IF w.manga THEN bwdOpened(w, openPreviousArchive(w, "preloading"))
         ELSE [ret |-> FALSE, w |-> w]
\* the body of the backward loop after m.get(m.nl)
bwdAt(w, firstPreload) ==
  IF HasPage(w, w.nl) /\ PageCanLoad(GetPage(w, w.nl)) THEN [ret |-> TRUE, w |-> w]
  ELSE bwdStep(w, add(w, w.nl, -1), firstPreload)
findBwd(w, firstPreload) ==
  IF gt(firstPreload, w.nl) THEN [ret |-> FALSE, w |-> w]
  ELSE bwdAt(Got(w, w.nl), firstPreload)

\* "m.nl = m.c" when the backward loop ends without returning
parkOnCurrent(b) == IF b.ret THEN b.w ELSE [b.w EXCEPT !.nl = b.w.c]
\* from firstPreload on
findBehind(w) == parkOnCurrent(findBwd(w, add(w, w.c, -PreloadBehind).pi))
\* "m.nl = m.c" when the forward loop ends without returning
findAfterFwd(f) == IF f.ret THEN f.w ELSE findBehind([f.w EXCEPT !.nl = f.w.c])
findNextImageToLoad(w) ==
  IF ~gt(w.c, w.nl) THEN findAfterFwd(findFwd(w, add(w, w.c, PreloadAhead).pi))
  ELSE findBehind(w)

\* ---------------------------------------------------------------------
\* Movement commands
\* ---------------------------------------------------------------------
\* cli.MarkLoaded(msi) of the payload received
markCurrent(w) ==
  SetPage(w, w.c, [GetPage(w, w.c) EXCEPT !.normal = LiPoll(GetPage(w, w.c).normal)])
\* cli.maybeRescale(m.targetSize)
rescaleCurrent(w) == SetPage(w, w.c, PageMaybeRescale(GetPage(w, w.c), w.tsz))
\* the receive of afterMove's select with a default case
pollCurrent(w) ==
  IF HasPage(w, w.c) /\ LiIsLoading(GetPage(w, w.c).normal)
       /\ GetPage(w, w.c).normal.buf.full
    THEN rescaleCurrent(updateState(markCurrent(w)))
    ELSE w

\* p.unload() if p != nil
unloadPage(w, pi) ==
  IF HasPage(w, pi) THEN SetPage(w, pi, PageUnload(GetPage(w, pi))) ELSE w
unloadAt(w, pi, ok) == IF ok THEN unloadPage(Got(w, pi), pi) ELSE w

\* from the old lower limit of loading forward to the new lower limit
RECURSIVE evictLow(_, _, _, _)
evictLow(w, newStart, pi, ok) ==
  IF gt(newStart, pi)
    THEN LET r == add(w, pi, 1) IN evictLow(unloadAt(w, pi, ok), newStart, r.pi, r.ok)
    ELSE w
\* from the old upper limit backward to the new upper limit
RECURSIVE evictHigh(_, _, _, _)
evictHigh(w, newEnd, pi, ok) ==
  IF gt(pi, newEnd)
    THEN LET r == add(w, pi, -1) IN evictHigh(unloadAt(w, pi, ok), newEnd, r.pi, r.ok)
    ELSE w

\* m.closeUnusedArchives(newStart, newEnd, firstUpscaled, lastUpscaled);
\* m.firstImageFromFile = nil
closeAfterMove(w, newStart, newEnd) ==
  [closeUnusedArchives(w, newStart, newEnd, w.c, w.c) EXCEPT !.fiff = FALSE]
\* the unloads above the new upper limit, and what follows
evictAhead(w, oldc, newStart) ==
  LET newEnd == add(w, w.c, PreloadAhead)
      pi == add(w, oldc, PreloadAhead)
  IN closeAfterMove(IF newEnd.ok THEN evictHigh(w, newEnd.pi, pi.pi, pi.ok) ELSE w,
                    newStart, newEnd.pi)
\* the unloads below the new lower limit, and what follows
evictBehind(w, oldc) ==
  LET newStart == add(w, w.c, -PreloadBehind)
      pi == add(w, oldc, -PreloadBehind)
  IN evictAhead(IF newStart.ok THEN evictLow(w, newStart.pi, pi.pi, pi.ok) ELSE w,
                oldc, newStart.pi)
\* m.nl = m.c; m.nu = m.c
resetNext(w) == [w EXCEPT !.nl = w.c, !.nu = w.c]

\* afterMove without "m.nl = m.c": the search for the next image to load
\* starts from wherever the last one ended
afterMoveKeepsNl(w, oldc) ==
  evictBehind(findNextImageToLoad(pollCurrent(Got(w, w.c))), oldc)

afterMove(w, oldc) ==
  evictBehind(findNextImageToLoad(resetNext(pollCurrent(Got(w, w.c)))), oldc)

\* moveNPages without the clamp of nc.p to the pages of the archive
clampPageNot(w, nc) == nc

clampPage(w, nc) ==
  LET n == PageCount(w, nc.a)
      p1 == IF nc.p >= n THEN n - 1 ELSE nc.p
  IN PI(nc.a, IF p1 < 0 THEN 0 ELSE p1)

\* oldc := m.c; m.c = nc; m.afterMove(oldc), nc.p clamped
moveTo(w, nc) == afterMove([w EXCEPT !.c = clampPage(w, nc)], w.c)

RECURSIVE moveNPages(_, _)
\* after openNextArchive or openPreviousArchive in manga mode
moveOpened(w, o, n, nc) == IF o.ok THEN moveNPages(o.w, n) ELSE moveTo(w, nc)
\* after m.add(m.c, n)
moveFrom(w, n, r) ==
  IF ~r.ok /\ w.manga
    THEN moveOpened(w,
           IF n > 0
             THEN openNextArchive(w, IF r.pi.p = PageCount(w, r.pi.a)
                                       THEN "waitingOnFirst" ELSE "preloading")
             ELSE openPreviousArchive(w, IF r.pi.p = -1
                                           THEN "waitingOnLast" ELSE "preloading"),
           n, r.pi)
    ELSE moveTo(w,
           IF ~r.ok THEN PI(w.c.a, r.pi.p)
           ELSE IF ~w.manga /\ r.pi.a # w.c.a
             THEN PI(w.c.a, IF r.pi.a > w.c.a THEN Max(PageCount(w, w.c.a) - 1, 0) ELSE 0)
             ELSE r.pi)
moveNPages(w, n) == IF n = 0 THEN w ELSE moveFrom(w, n, add(w, w.c, n))

nextPage(w) == moveNPages(w, 1)
prevPage(w) == moveNPages(w, -1)

\* jump whose absolute form lacks "if j >= len(a.pages) { j = len(a.pages) - 1 }"
jumpPastEnd(w, arg) ==
  IF arg.n < 0 THEN w
  ELSE IF arg.sign = ""
    THEN afterMove([w EXCEPT !.c.p = Max(arg.n - 1, 0)], w.c)
    ELSE moveNPages(w, IF arg.sign = "-" THEN -arg.n ELSE arg.n)

\* arg: [sign |-> "" | "+" | "-", n |-> digits]; n < 0 stands for an
\* argument that jumpRe or Atoi rejects
jump(w, arg) ==
  IF arg.n < 0 THEN w
  ELSE IF arg.sign = ""
    THEN afterMove([w EXCEPT !.c.p = Max(Min(arg.n - 1, PageCount(w, w.c.a) - 1), 0)], w.c)
    ELSE moveNPages(w, IF arg.sign = "-" THEN -arg.n ELSE arg.n)

firstPage(w) ==
  IF w.c.p # 0 THEN afterMove([w EXCEPT !.c.p = 0], w.c) ELSE w

lastPage(w) ==
  LET p == Max(PageCount(w, w.c.a) - 1, 0) IN
  IF w.c.p # p THEN afterMove([w EXCEPT !.c.p = p], w.c) ELSE w

\* oldc := m.c; m.c.a, m.c.p = m.c.a+d, 0; m.afterMove(oldc), unless the open failed
enterArchive(w, o, d) ==
  IF o.ok THEN afterMove([o.w EXCEPT !.c = PI(o.w.c.a + d, 0)], o.w.c) ELSE w

nextArchive(w) ==
  enterArchive(w, IF w.c.a = Len(w.archives) - 1
                    THEN openNextArchive(w, "waitingOnFirst")
                    ELSE [ok |-> TRUE, w |-> w], 1)

prevArchive(w) ==
  enterArchive(w, IF w.c.a = 0
                    THEN openPreviousArchive(w, "waitingOnFirst")
                    ELSE [ok |-> TRUE, w |-> w], -1)

mangaToggle(w) ==
  IF ~w.manga THEN afterMove([w EXCEPT !.manga = TRUE], w.c)
  ELSE [w EXCEPT !.manga = FALSE]

\* ---------------------------------------------------------------------
\* State
\* ---------------------------------------------------------------------
VARIABLES
  archives,  \* m.archives: the identifiers of the open archive objects
  c, nl, nu, \* m.c, m.nl, m.nu
  manga,     \* m.mangaMode
  tsz,       \* m.targetSize
  s,         \* m.s
  fiff,      \* m.firstImageFromFile is not nil
  objs,      \* every archive object that still has a goroutine, by identifier
  wg,        \* the wait group's counter
  panic,     \* a manager.get has panicked
  dblclose,  \* Close was called on an archive that was closed already
  closing,   \* closing.Ch is closed
  mpc,       \* the manager: "loop" at the top of its loop, "input" inside
             \* InputLoop with another command received, "done" returned
  armed,     \* resizeDebounce is running
  sem,       \* number of tokens in loadingSem
  sigdone,   \* main's signal goroutine has called wg.Done
  guidone,   \* the GUI has called wg.Done
  ncmd, nsz, \* commands and size events the GUI has yet to send
  obs,       \* what an observer has recorded of the operation under study
  socks      \* the connections accepted on the socket, in order of arrival

vars == << archives, c, nl, nu, manga, tsz, s, fiff, objs, wg, panic, dblclose,
           closing, mpc, armed, sem, sigdone, guidone, ncmd, nsz, obs, socks >>

W == [archives |-> archives, c |-> c, nl |-> nl, nu |-> nu, manga |-> manga,
      tsz |-> tsz, s |-> s, fiff |-> fiff, objs |-> objs, wg |-> wg,
      panic |-> panic, dblclose |-> dblclose]

SetW(w) ==
  /\ archives' = w.archives /\ c' = w.c /\ nl' = w.nl /\ nu' = w.nu
  /\ manga' = w.manga /\ tsz' = w.tsz /\ s' = w.s /\ fiff' = w.fiff
  /\ objs' = w.objs /\ wg' = w.wg /\ panic' = w.panic /\ dblclose' = w.dblclose

wvars == << archives, c, nl, nu, manga, tsz, s, fiff, wg, panic, dblclose >>

\* the manager's fields when run begins
NewManager(st) ==
  [archives |-> << >>, c |-> PI(0, 0), nl |-> PI(0, 0), nu |-> PI(0, 0),
   manga |-> st.mg, tsz |-> ZP,
   s |-> [alen |-> 0, aname |-> 0, manga |-> FALSE, pname |-> 0, pn |-> 0,
          img |-> IF st.k > 0 THEN [k |-> "first", f |-> 0, p |-> 0, b |-> ZP]
                  ELSE NoSImg,
          ob |-> ZP],
   fiff |-> st.k > 0, objs |-> [i \in {} |-> 0], wg |-> 3, panic |-> FALSE,
   dblclose |-> FALSE]
\* m.archives = []*archive{a}; m.c.p = p; m.nl = m.c; m.nu = m.c
firstArchive(r) ==
  [r.w EXCEPT !.archives = <<r.id>>, !.c = PI(0, r.ip), !.nl = PI(0, r.ip),
              !.nu = PI(0, r.ip)]
\* run, up to the first iteration of its loop
InitWorld(st) ==
  updateState(findNextImageToLoad(
    firstArchive(openArchive(NewManager(st), st.f, st.k, "waitingOnFirst"))))

\* nothing has been observed
NoObs == [op |-> "none"]

\* the program in state w of the manager; the GUI will send nc commands and
\* ns sizes
StartsObs(w, nc, ns, o) ==
  /\ archives = w.archives /\ c = w.c /\ nl = w.nl /\ nu = w.nu
  /\ manga = w.manga /\ tsz = w.tsz /\ s = w.s /\ fiff = w.fiff
  /\ objs = w.objs /\ wg = w.wg /\ panic = w.panic /\ dblclose = w.dblclose
  /\ closing = FALSE /\ mpc = "loop" /\ armed = FALSE
  /\ sem = 0 /\ sigdone = FALSE /\ guidone = FALSE /\ ncmd = nc /\ nsz = ns
  /\ obs = o /\ socks = << >>
StartsAs(w, nc, ns) == StartsObs(w, nc, ns, NoObs)
\* the program started as one of S
InitWith(S, nc, ns) == \E st \in S : StartsAs(InitWorld(st), nc, ns)

Init == InitWith(Starts, MaxCmds, MaxSizes)

\* ---------------------------------------------------------------------
\* The manager's loop
\* ---------------------------------------------------------------------
\* the assertions at the top of the loop do not panic
AssertionsHold(w) ==
  HasPage(w, w.c) =>
    LET cp == GetPage(w, w.c) IN
    /\ ~(cp.state = "extracting" /\ w.c # w.nl)
    /\ ~(upscaling /\ cp.state # "upscaled" /\ w.c # w.nl)
    /\ ~(LiOrd(cp.normal.state) <= LiOrd("loadable") /\ w.c # w.nl)

\* loadCh != nil
WatchingLoad(w) == HasPage(w, w.c) /\ GetPage(w, w.c).normal.state = "loading"

\* a loop that loads the current page only
StartsLoadCurrent(w) ==
  /\ ~WatchingLoad(w) \/ w.c.p # 0
  /\ HasPage(w, w.nl)
  /\ LiReadyToLoad(GetPage(w, w.nl).normal)
  /\ w.c = w.nl

\* the condition under which the loop starts a load and continues
StartsLoad(w) ==
  /\ ~WatchingLoad(w) \/ w.c.p # 0
  /\ HasPage(w, w.nl)
  /\ LiReadyToLoad(GetPage(w, w.nl).normal)
  /\ w.tsz # ZP \/ w.c = w.nl

AtSelect == mpc = "loop" /\ ~StartsLoad(W)

\* nlli.Load(sz); m.findNextImageToLoad(); continue. o is what the observer notes
StartLoad(o) ==
  /\ mpc = "loop" /\ StartsLoad(W)
  /\ SetW(findNextImageToLoad(
            SetPage(W, nl, PageLoad(GetPage(W, nl), IF c = nl THEN ZP ELSE tsz))))
  /\ obs' = o
  /\ UNCHANGED << closing, mpc, armed, sem, sigdone, guidone, ncmd, nsz, socks >>
MStartLoad == StartLoad(obs)

\* lastSentState, which the observer keeps: the State last sent on stateChan
Sent(st) == [op |-> "sent", sent |-> st]
\* a load starts: inflight, a load of the current page is in flight; first,
\* the current page is page 0; pending, m.s is not the State last sent;
\* ready, the image of nl is ready to load
Started(w, sent) ==
  [op |-> "start", sent |-> sent, inflight |-> WatchingLoad(w), first |-> w.c.p = 0,
   pending |-> w.s # sent,
   ready |-> HasPage(w, w.nl) /\ LiReadyToLoad(GetPage(w, w.nl).normal)]
MStartLoadSeen == StartLoad(Started(W, obs.sent))
\* case stateCh <- m.s: lastSentState = m.s
MSendState ==
  /\ AtSelect /\ s # obs.sent
  /\ obs' = Sent(s)
  /\ UNCHANGED << wvars, objs, closing, mpc, armed, sem, sigdone, guidone, ncmd, nsz, socks >>

\* m.join, then wg.Done
RECURSIVE closeAll(_, _)
closeAll(w, i) ==
  IF i > Len(w.archives) THEN w ELSE closeAll(Close(w, w.archives[i]), i + 1)

\* the deferred wg.Done of run
wgDone(w) == [w EXCEPT !.wg = w.wg - 1]

MClosing ==
  /\ AtSelect /\ closing
  /\ SetW(wgDone(closeAll(W, 1)))
  /\ mpc' = "done"
  /\ UNCHANGED << closing, armed, sem, sigdone, guidone, ncmd, nsz, obs, socks >>

\* case msi := <-loadCh can proceed
LoadResultReady == AtSelect /\ WatchingLoad(W) /\ GetPage(W, c).normal.buf.full
\* case s := <-extractionCh can proceed
ExtractResultReady ==
  /\ AtSelect /\ HasPage(W, nl)
  /\ GetPage(W, nl).state = "extracting" /\ EchReady(GetPage(W, nl).ech)

MLoadResult ==
  /\ LoadResultReady
  /\ SetW(rescaleCurrent(updateState(markCurrent(W))))
  /\ UNCHANGED << closing, mpc, armed, sem, sigdone, guidone, ncmd, nsz, obs, socks >>

MExtractResult ==
  /\ ExtractResultReady
  /\ LET nlp == GetPage(W, nl) IN
     /\ SetW(SetPage(W, nl, MarkExtracted([nlp EXCEPT !.ech = EchTake(nlp.ech)],
                                          EchValue(nlp.ech))))
  /\ UNCHANGED << closing, mpc, armed, sem, sigdone, guidone, ncmd, nsz, obs, socks >>

JumpArgs == { [sign |-> "+", n |-> 2], [sign |-> "-", n |-> 2], [sign |-> "", n |-> 2],
              [sign |-> "", n |-> -1] }
Simple == { "NextPage", "PrevPage", "FirstPage", "LastPage", "NextArchive",
            "PrevArchive", "MangaToggle" }

simpleCommands(w, cmd) ==
  CASE cmd = "NextPage" -> nextPage(w)
    [] cmd = "PrevPage" -> prevPage(w)
    [] cmd = "FirstPage" -> firstPage(w)
    [] cmd = "LastPage" -> lastPage(w)
    [] cmd = "NextArchive" -> nextArchive(w)
    [] cmd = "PrevArchive" -> prevArchive(w)
    [] cmd = "MangaToggle" -> mangaToggle(w)

\* one command of InputLoop; more: another command is waiting in commandChan;
\* o: what the observer records of it
Command(w1, o) ==
  /\ (AtSelect /\ ~closing) \/ mpc = "input"
  /\ ncmd > 0
  /\ ncmd' = ncmd - 1
  /\ obs' = o /\ socks' = socks
  /\ \E more \in BOOLEAN :
       /\ more => ncmd > 1
       /\ IF more THEN SetW(w1) /\ mpc' = "input"
                  ELSE SetW(updateState(w1)) /\ mpc' = "loop"
  /\ UNCHANGED << closing, armed, sem, sigdone, guidone, nsz >>

MSimpleCommand == \E cmd \in Simple : Command(simpleCommands(W, cmd), obs)
\* the GUI only turns pages
MTurn == \E cmd \in {"NextPage", "PrevPage"} : Command(simpleCommands(W, cmd), obs)
MJump == \E arg \in JumpArgs : Command(jump(W, arg), obs)

\* what the observer records of a move: the command's argument, and the
\* cursor, the mode, the current archive object and its page count before it
Moved(arg) ==
  [op |-> "move", arg |-> arg, c |-> c, manga |-> manga, id |-> archives[c.a + 1],
   n |-> PageCount(W, c.a)]
\* relative moves: NextPage is the move by +1, PrevPage the move by -1
RelMoves == { [sign |-> "+", n |-> 1], [sign |-> "-", n |-> 1],
              [sign |-> "+", n |-> 2], [sign |-> "-", n |-> 2] }
\* the GUI moves by pages, goes to the last page or leaves manga mode
MRelMove ==
  \E arg \in RelMoves :
    Command(IF arg.n = 1 THEN simpleCommands(W, IF arg.sign = "+" THEN "NextPage" ELSE "PrevPage")
            ELSE jump(W, arg), Moved(arg))
MLastPage == Command(simpleCommands(W, "LastPage"), NoObs)
MMangaToggle == Command(simpleCommands(W, "MangaToggle"), NoObs)
\* absolute jumps: Jump 0, Jump 2, Jump 5
AbsMoves == { [sign |-> "", n |-> 0], [sign |-> "", n |-> 2], [sign |-> "", n |-> 5] }
MAbsJump == \E arg \in AbsMoves : Command(jump(W, arg), Moved(arg))

\* apply F to every page of every archive of m.archives
ForPages(w, F(_)) ==
  [w EXCEPT !.objs = [id \in DOMAIN w.objs |->
     IF \E i \in 1..Len(w.archives) : w.archives[i] = id
       THEN [w.objs[id] EXCEPT !.pages =
               [i \in 1..Len(w.objs[id].pages) |-> F(w.objs[id].pages[i])]]
       ELSE w.objs[id]]]

invalidateStaleDownscaledImages(w) ==
  LET F(p) == PageInvalidateDownscaled(p, w.tsz) IN ForPages(w, F)
maybeRescaleLargerImages(w) ==
  LET F(p) == PageMaybeRescale(p, w.tsz) IN ForPages(w, F)

\* resizeDebounce := time.NewTimer(time.Second): the timer is never nil
resizeDebounceNil == FALSE
\* the body of "if cli.ReadyToLoad()" in the case of sizeChan
syncLoad(w) ==
  LET p == GetPage(w, w.c)
      w1 == updateState(SetPage(w, w.c, [p EXCEPT !.normal = loadSyncUnscaled(p.normal, p.ent)]))
  IN SetPage(w1, w1.c, PageMaybeRescale(GetPage(w1, w1.c), w1.tsz))
\* the body of "if cli != nil && resizeDebounce == nil"
syncRescale(w) ==
  LET w1 == SetPage(w, w.c, PageMaybeRescale(GetPage(w, w.c), w.tsz)) IN
  updateState(IF LiReadyToLoad(GetPage(w1, w1.c).normal) THEN syncLoad(w1) ELSE w1)
\* m.invalidateStaleDownscaledImages(); m.nl = m.c
sizeInvalidated(w, sz) ==
  [invalidateStaleDownscaledImages([w EXCEPT !.tsz = sz]) EXCEPT !.nl = w.c]
\* case m.targetSize = <-m.sizeChan, up to the timer
sizeChan(w, sz) ==
  IF HasPage(w, w.c) /\ resizeDebounceNil
    THEN syncRescale(sizeInvalidated(w, sz))
    ELSE sizeInvalidated(w, sz)
\* what a size event found and left: ready, the current image was ready to
\* load once the stale images were invalidated; after, its state at the end
Resized(w, sz) ==
  [op |-> "size",
   ready |-> HasPage(w, w.c) /\ LiReadyToLoad(GetPage(sizeInvalidated(w, sz), w.c).normal),
   after |-> IF HasPage(w, w.c) THEN GetPage(sizeChan(w, sz), w.c).normal.state ELSE "none"]
SizeEvent(S, seen) ==
  /\ AtSelect /\ ~closing /\ nsz > 0
  /\ \E sz \in S :
       /\ SetW(sizeChan(W, sz))
       /\ obs' = IF seen THEN Resized(W, sz) ELSE obs
  /\ armed' = TRUE /\ nsz' = nsz - 1
  /\ UNCHANGED << closing, mpc, sem, sigdone, guidone, ncmd, socks >>

\* m.nl = m.c
restartSearch(w) == [w EXCEPT !.nl = w.c]

MSize == SizeEvent(Sizes, FALSE)
\* the window is resized between two sizes
MResize == SizeEvent(Resizes, FALSE)
\* the same, watched
MResizeSeen == SizeEvent(Resizes, TRUE)

MTimer ==
  /\ AtSelect /\ armed
  /\ SetW(findNextImageToLoad(restartSearch(
            maybeRescaleLargerImages(invalidateStaleDownscaledImages(W)))))
  /\ armed' = FALSE
  /\ UNCHANGED << closing, mpc, sem, sigdone, guidone, ncmd, nsz, obs, socks >>

\* ---------------------------------------------------------------------
\* The socket: handleConn, the relay of action requests to the GUI, the
\* commands and executables that come back with a reply channel
\* ---------------------------------------------------------------------
\* getStateEnvVars: the page number and whether AWMAN_CURRENT_FILE is set;
\* written: the file of the current page exists (it was extracted, or it is
\* a file of the directory), which the observer notes beside it
getStateEnvVars(w) ==
  LET has == HasPage(w, w.c) IN
  [op |-> "env", archive |-> Obj(w, w.c.a).f, page |-> IF has THEN w.c.p + 1 ELSE 0,
   file |-> has /\ GetPage(w, w.c).state # "extracting",
   written |-> has /\ (~GetPage(w, w.c).deletable \/ GetPage(w, w.c).ent.ok)]

\* the requests a client sends: status, an empty line, an action of the GUI,
\* actions the GUI hands to the manager, and the path of an executable
Reqs == { "status", "", "ToggleUI", "NextPage", "Jump 2", "Jump 99999999999999999999",
          "ToggleUpscaling", "/bin/save-page" }
\* the actions runCommand hands on as a manager.UserCommand
ManagerReqs == { "NextPage", "Jump 2", "Jump 99999999999999999999", "ToggleUpscaling" }
\* the manager's maps of commands hold no handler for UpscaleToggle
Unhandled == { "ToggleUpscaling" }

\* ch := make(chan error): sent and closes count the sends and the closes on
\* it, taken: the connection's goroutine has received from it, bad: a send
\* on the closed channel
NoCh == [sent |-> 0, closes |-> 0, taken |-> FALSE, bad |-> FALSE]
\* a connection: st is where its request is, resp what was written to it
Conn(req) ==
  [req |-> req, st |-> IF req = "status" THEN "status" ELSE "queued", ch |-> NoCh,
   resp |-> << >>]
\* ch <- err with the connection's goroutine waiting in "err := <-ch": it
\* writes the error
ChSend(x) ==
  [x EXCEPT !.ch.sent = @ + 1, !.ch.bad = @ \/ x.ch.closes > 0, !.ch.taken = TRUE,
            !.resp = IF x.ch.taken THEN @ ELSE Append(@, "error")]
\* close(ch)
ChClose(x) == [x EXCEPT !.ch.closes = @ + 1]
\* the handler is done with the request
Handled(x) == [x EXCEPT !.st = "handled"]
\* the first connection whose request is at st, 0 if none
FirstAt(st) ==
  IF \E k \in 1..Len(socks) : socks[k].st = st
    THEN CHOOSE k \in 1..Len(socks) :
           socks[k].st = st /\ \A j \in 1..(k - 1) : socks[j].st # st
    ELSE 0

\* case c := <-m.socketConns: m.handleConn(c), the read succeeding
MConn ==
  /\ AtSelect /\ Len(socks) < MaxReqs
  /\ \E req \in Reqs :
       /\ socks' = Append(socks, Conn(req))
       /\ obs' = IF req = "status" THEN getStateEnvVars(W) ELSE obs
  /\ UNCHANGED << wvars, objs, closing, mpc, armed, sem, sigdone, guidone, ncmd, nsz >>

\* case socketCmdCh <- socketCmd: the GUI receives the first of m.socketCommands
MSocketCmd ==
  /\ AtSelect /\ FirstAt("queued") # 0
  /\ socks' = [socks EXCEPT ![FirstAt("queued")].st = "gui"]
  /\ UNCHANGED << wvars, objs, closing, mpc, armed, sem, sigdone, guidone, ncmd, nsz, obs >>

\* runCommand(s, ch) in the GUI
runCommand(x) ==
  IF x.req = "" THEN Handled(x)
  ELSE IF x.req = "ToggleUI" THEN Handled(ChClose(x))
  ELSE IF x.req \in ManagerReqs THEN [x EXCEPT !.st = "command"]
  ELSE [x EXCEPT !.st = "executable"]
GRun ==
  /\ \E k \in 1..Len(socks) :
       socks[k].st = "gui" /\ socks' = [socks EXCEPT ![k] = runCommand(socks[k])]
  /\ UNCHANGED << wvars, objs, closing, mpc, armed, sem, sigdone, guidone, ncmd, nsz, obs >>

\* what the command of request req does to the manager; err: it returns an error
Requested(w, req) ==
  CASE req = "NextPage" -> [w |-> nextPage(w), err |-> FALSE]
    [] req = "Jump 2" -> [w |-> jump(w, [sign |-> "", n |-> 2]), err |-> FALSE]
    [] req = "Jump 99999999999999999999" ->
         [w |-> jump(w, [sign |-> "", n |-> -1]), err |-> TRUE]
\* "select { case uc.Ch <- err: case <-closing.Ch: }" and "close(uc.Ch)"
Reply(x, err, skip) == Handled(ChClose(IF err /\ ~skip THEN ChSend(x) ELSE x))

\* case uc := <-m.commandChan with uc.Ch the reply channel of a connection,
\* for a command the maps hold; more: another command waits in commandChan
MSockCommand ==
  /\ AtSelect \/ mpc = "input"
  /\ FirstAt("command") # 0
  /\ LET k == FirstAt("command")
         r == Requested(W, socks[k].req)
     IN /\ socks[k].req \notin Unhandled
        /\ \E more \in BOOLEAN, skip \in BOOLEAN :
             /\ more => \E j \in (k + 1)..Len(socks) : socks[j].st = "command"
             /\ skip => closing
             /\ socks' = [socks EXCEPT ![k] = Reply(socks[k], r.err, skip)]
             /\ IF more THEN SetW(r.w) /\ mpc' = "input"
                        ELSE SetW(updateState(r.w)) /\ mpc' = "loop"
  /\ UNCHANGED << closing, armed, sem, sigdone, guidone, ncmd, nsz, obs >>

\* the same for a command without handler: log.Panicln, the deferred recover
\* calls closing.Close(), then the deferred join and wg.Done run
MPanic ==
  /\ AtSelect \/ mpc = "input"
  /\ FirstAt("command") # 0
  /\ socks[FirstAt("command")].req \in Unhandled
  /\ socks' = [socks EXCEPT ![FirstAt("command")] = Handled(@)]
  /\ SetW(wgDone(closeAll(W, 1)))
  /\ closing' = TRUE /\ mpc' = "done"
  /\ UNCHANGED << armed, sem, sigdone, guidone, ncmd, nsz, obs >>

\* case e := <-m.executableChan: m.runExecutable(e), up to the go statement
MExec ==
  /\ AtSelect /\ FirstAt("executable") # 0
  /\ socks' = [socks EXCEPT ![FirstAt("executable")].st = "running"]
  /\ obs' = getStateEnvVars(W)
  /\ UNCHANGED << wvars, objs, closing, mpc, armed, sem, sigdone, guidone, ncmd, nsz >>

\* the goroutine of runExecutable: the executable ends, with an error or not
ExecDone ==
  /\ \E k \in 1..Len(socks) : \E err \in BOOLEAN :
       /\ socks[k].st = "running"
       /\ socks' = [socks EXCEPT ![k] = Reply(socks[k], err, FALSE)]
  /\ UNCHANGED << wvars, objs, closing, mpc, armed, sem, sigdone, guidone, ncmd, nsz, obs >>

\* the goroutine of the connection: "err := <-ch" on the closed channel
\* writes "done"; a status request is answered with the environment
SockReply ==
  /\ \E k \in 1..Len(socks) :
       \/ /\ socks[k].st = "status"
          /\ socks' = [socks EXCEPT ![k] = Handled([@ EXCEPT !.resp = Append(@, "env")])]
       \/ /\ socks[k].ch.closes > 0 /\ ~socks[k].ch.taken
          /\ socks' = [socks EXCEPT ![k].ch.taken = TRUE, ![k].resp = Append(@, "done")]
  /\ UNCHANGED << wvars, objs, closing, mpc, armed, sem, sigdone, guidone, ncmd, nsz, obs >>

\* ---------------------------------------------------------------------
\* Load workers: loadAndScale for worker k of page i of archive object id
\* ---------------------------------------------------------------------
Li(id, i) == objs[id].pages[i].normal
Wk(id, i, k) == Li(id, i).ws[k]
SetLi(id, i, li) ==
  /\ objs' = [objs EXCEPT ![id].pages[i].normal = li]
  /\ UNCHANGED wvars
Workers ==
  UNION { UNION { { <<id, i, k>> : k \in 1..Len(objs[id].pages[i].normal.ws) } :
                  i \in 1..Len(objs[id].pages) } : id \in DOMAIN objs }
Cancelled(wk) == closing \/ wk.can

\* what a worker did: saw is the select that found closing.Ch or cancelLoad
\* closed, dec: loadImageFromFile was called
Ran(saw, dec) == [op |-> "load", saw |-> saw, dec |-> dec]
\* loadingSem <- struct{}{} whatever the semaphore holds
WAcquireUnbounded(id, i, k) ==
  /\ Wk(id, i, k).pc = "wait"
  /\ sem' = sem + 1
  /\ SetLi(id, i, [Li(id, i) EXCEPT !.ws[k].pc = "held"])
  /\ UNCHANGED << closing, mpc, armed, sigdone, guidone, ncmd, nsz, obs, socks >>

\* the first select, before the semaphore; o is what the observer notes
WPre(id, i, k, o) ==
  /\ Wk(id, i, k).pc = "pre"
  /\ SetLi(id, i, [Li(id, i) EXCEPT
         !.ws[k].pc = IF Cancelled(Wk(id, i, k)) THEN "send" ELSE "wait"])
  /\ obs' = o
  /\ UNCHANGED << closing, mpc, armed, sem, sigdone, guidone, ncmd, nsz, socks >>

\* loadingSem <- struct{}{}
WAcquire(id, i, k) ==
  /\ Wk(id, i, k).pc = "wait" /\ sem < LoadThreads
  /\ sem' = sem + 1
  /\ SetLi(id, i, [Li(id, i) EXCEPT !.ws[k].pc = "held"])
  /\ UNCHANGED << closing, mpc, armed, sigdone, guidone, ncmd, nsz, obs, socks >>

\* the second select, loadImageFromFile unless an image was passed, the third
\* select, maybeScaleImage and the release of the semaphore. The cancel and
\* closing signals are never withdrawn and the steps between the selects touch
\* nothing shared, so the selects are taken at the moment of the last one.
\* loadAndScale from the second select on, for a worker that finds the
\* signals as can tells and a file that decodes to e: the result sent, and
\* what the worker did
loadAndScale(wk, e, can) ==
  IF can THEN [out |-> NoMsi, ran |-> Ran("post", FALSE)]
  ELSE LET img == IF wk.img.has THEN wk.img
                  ELSE IF e.dec THEN [has |-> TRUE, b |-> e.sz] ELSE NoImg
       IN [out |-> IF img.has THEN maybeScaleImage(img, wk.tsz) ELSE NoMsi,
           ran |-> Ran("none", ~wk.img.has)]
WWork(id, i, k, seen) ==
  /\ Wk(id, i, k).pc = "held"
  /\ sem' = sem - 1
  /\ LET r == loadAndScale(Wk(id, i, k), objs[id].pages[i].ent, Cancelled(Wk(id, i, k)))
     IN /\ SetLi(id, i, [Li(id, i) EXCEPT !.ws[k].pc = "send", !.ws[k].out = r.out])
        /\ obs' = IF seen THEN r.ran ELSE obs
  /\ UNCHANGED << closing, mpc, armed, sigdone, guidone, ncmd, nsz, socks >>

\* the channel worker wk sends on has room
SendReady(li, wk) == IF wk.ch = li.gen THEN ~li.buf.full ELSE wk.ch \notin li.full

\* loadCh <- msi
WSend(id, i, k) ==
  /\ Wk(id, i, k).pc = "send"
  /\ SendReady(Li(id, i), Wk(id, i, k))
  /\ LET li == Li(id, i)
         wk == li.ws[k]
         others == Unsent(li, wk.ch) \ {k}
     IN SetLi(id, i,
          IF wk.ch = li.gen
            THEN [li EXCEPT !.ws[k].pc = "fin",
                            !.buf = [full |-> TRUE, m |-> wk.out, live |-> wk.live]]
            ELSE [li EXCEPT !.ws[k].pc = "fin",
                            !.full = IF others = {} THEN li.full ELSE li.full \cup {wk.ch}])
  /\ UNCHANGED << closing, mpc, armed, sem, sigdone, guidone, ncmd, nsz, obs, socks >>

\* the deferred function without "<-lastLoad": close(thisLoad) as soon as the
\* payload is sent
WFinishUnordered(id, i, k) ==
  /\ Wk(id, i, k).pc = "fin"
  /\ LET li == Li(id, i)
         rest == [j \in 1..(Len(li.ws) - 1) |-> li.ws[IF j < k THEN j ELSE j + 1]]
     IN SetLi(id, i, IF rest = << >>
                       THEN [li EXCEPT !.ws = rest, !.gen = 0, !.full = {}]
                       ELSE [li EXCEPT !.ws = rest])
  /\ UNCHANGED << closing, mpc, armed, sem, sigdone, guidone, ncmd, nsz, obs, socks >>

\* <-lastLoad; close(thisLoad)
WFinish(id, i, k) ==
  /\ Wk(id, i, k).pc = "fin" /\ k = 1
  /\ LET li == Li(id, i)
         rest == Tail(li.ws)
     IN SetLi(id, i, IF rest = << >>
                       THEN [li EXCEPT !.ws = rest, !.gen = 0, !.full = {}]
                       ELSE [li EXCEPT !.ws = rest])
  /\ UNCHANGED << closing, mpc, armed, sem, sigdone, guidone, ncmd, nsz, obs, socks >>

\* ---------------------------------------------------------------------
\* The extractor goroutine of archive object id
\* ---------------------------------------------------------------------
Entries(a) == IF a.kind = "directory" THEN << >> ELSE Files[a.f].ents

\* p.extractCh <- success; close(p.extractCh)
EchSendClose(e, success) ==
  [buf |-> IF e.buf = "none" /\ e.closes = 0 THEN (IF success THEN "t" ELSE "f") ELSE e.buf,
   sent |-> e.sent + 1, closes |-> e.closes + 1,
   sac |-> e.sac \/ e.closes > 0 \/ e.buf # "none"]
EchClose(e) == [e EXCEPT !.closes = e.closes + 1]

\* the deferred function: close the channel of every page left in the map,
\* then close(extracting)
ExFinish(a) ==
  [a EXCEPT !.pages = [i \in 1..Len(a.pages) |->
                         IF \E e \in a.emap : e[2] = i
                           THEN [a.pages[i] EXCEPT !.ech = EchClose(a.pages[i].ech)]
                           ELSE a.pages[i]],
            !.emap = {}, !.exdone = TRUE, !.ex.pc = "done"]

\* the WalkFunc returns nil without effect on an entry that is not the target
\* of the fast walk or is no longer in the map
Extracts(a, j) ==
  LET e == Entries(a)[j] IN
  /\ MapHas(a.emap, e.path)
  /\ a.ex.pc = "fast" => e.path = a.pages[a.ex.fast].path
\* the next entry, from ex.i on, that the walk extracts; 0: none is left
NextMatch(a) ==
  LET js == { j \in a.ex.i..Len(Entries(a)) : Extracts(a, j) } IN
  IF js = {} THEN 0 ELSE CHOOSE j \in js : \A k \in js : j <= k

\* the end of a walk: the full walk follows the walk for the fast page
ExWalkEnd(a) ==
  IF a.ex.pc = "fast" THEN [a EXCEPT !.ex.pc = "full", !.ex.i = 1] ELSE ExFinish(a)

\* archiverExtractor's WalkFunc on entry j, an entry it extracts unless stopped
ExVisit(a, j, stop) ==
  LET e == Entries(a)[j]
      i == MapGet(a.emap, e.path)
      a1 == [a EXCEPT !.ex.i = j + 1,
                      !.emap = MapDel(a.emap, e.path),
                      !.pages[i].ech = EchSendClose(a.pages[i].ech, e.ok),
                      !.pages[i].ent = IF e.ok THEN e ELSE a.pages[i].ent]
  IN IF stop THEN ExWalkEnd(a)
     ELSE IF a.ex.pc = "fast" /\ e.ok THEN ExWalkEnd(a1) ELSE a1

\* one step of the goroutine: the walk up to and including the next entry it
\* extracts, or the end of the walk when no such entry is left
ExStep(id) ==
  /\ objs[id].ex.pc # "done"
  /\ objs' = [objs EXCEPT ![id] =
       IF NextMatch(objs[id]) = 0 THEN ExWalkEnd(objs[id])
       ELSE ExVisit(objs[id], NextMatch(objs[id]), closing \/ objs[id].closed)]
  /\ UNCHANGED << wvars, closing, mpc, armed, sem, sigdone, guidone, ncmd, nsz, obs, socks >>

\* ---------------------------------------------------------------------
\* The goroutine of archive.Close, and page.cleanup
\* ---------------------------------------------------------------------
\* join without the wait for the last load
JoinedAtOnce(li) == TRUE
\* <-li.lastLoad can proceed: every load worker of the image has finished
Joined(li) == li.ws = << >>

\* clearUpscale: "if p.state < upscaling { return }"; no page is in state
\* upscaling, which only the send on upscaleJobsCh sets, and upscaleJobsCh is
\* nil in every iteration of run; for a page in state upscaled p.prevUpscale
\* is replaced and a goroutine is started that deletes the upscaled file
clearUpscale(p) == IF p.state = "upscaled" THEN [p EXCEPT !.state = "extracted"] ELSE p

\* cleanup of page i begins: <-p.extractCh; p.unload(); it then waits in join.
\* The goroutine stays at the receive when the channel has nothing to give:
\* cleanup runs after <-a.extracting, when the extractor, the only goroutine
\* that sends on the channel or closes it, has returned.
cleanup(a, i) ==
  LET p == a.pages[i] IN
  IF EchReady(p.ech)
    THEN [a EXCEPT !.pages[i] = PageUnload([p EXCEPT !.ech = EchTake(p.ech)]),
                   !.cl = [pc |-> "join", i |-> i]]
    ELSE [a EXCEPT !.cl = [pc |-> "ex", i |-> i]]

\* os.RemoveAll(a.tmpDir) and wg.Done; the object has no goroutine left
Remove(id) ==
  /\ objs' = [j \in DOMAIN objs \ {id} |-> objs[j]]
  /\ wg' = wg - 1

\* <-a.extracting, then up to the first join
ClWait(id) ==
  /\ objs[id].cl.pc = "wait" /\ objs[id].exdone
  /\ IF Len(objs[id].pages) = 0 THEN Remove(id)
     ELSE objs' = [objs EXCEPT ![id] = cleanup(objs[id], 1)] /\ wg' = wg
  /\ UNCHANGED << archives, c, nl, nu, manga, tsz, s, fiff, panic, dblclose, closing,
                  mpc, armed, sem, sigdone, guidone, ncmd, nsz, obs, socks >>

\* cleanup of page i returns: the goroutine goes on to the page that follows,
\* up to its join; after the last page the temp directory is removed
ClReturn(id, i) ==
  IF i = Len(objs[id].pages) THEN Remove(id)
  ELSE objs' = [objs EXCEPT ![id] = cleanup(objs[id], i + 1)] /\ wg' = wg

\* p.normal.join(), then p.clearUpscale(): for a page in state upscaled the
\* goroutine of clearUpscale is started and cleanup waits in <-p.prevUpscale
\* (pc "prev"); for any other page p.prevUpscale is the channel closed when
\* the page was made, and cleanup returns
ClJoin(id) ==
  /\ objs[id].cl.pc = "join"
  /\ LET i == objs[id].cl.i IN
     /\ Joined(objs[id].pages[i].normal)
     /\ IF objs[id].pages[i].state = "upscaled"
          THEN /\ objs' = [objs EXCEPT ![id].pages[i] = clearUpscale(objs[id].pages[i]),
                                       ![id].cl.pc = "prev"]
               /\ wg' = wg
          ELSE ClReturn(id, i)
  /\ UNCHANGED << archives, c, nl, nu, manga, tsz, s, fiff, panic, dblclose, closing,
                  mpc, armed, sem, sigdone, guidone, ncmd, nsz, obs, socks >>

\* the goroutine of clearUpscale: p.upscale.Delete() removes the upscaled
\* file, which was never written, and the deferred close(pu) closes
\* p.prevUpscale (pc "cleared")
ClDelete(id) ==
  /\ objs[id].cl.pc = "prev"
  /\ objs' = [objs EXCEPT ![id].cl.pc = "cleared"]
  /\ UNCHANGED << wvars, closing, mpc, armed, sem, sigdone, guidone, ncmd, nsz, obs, socks >>

\* cleanup without "<-p.prevUpscale"
PrevUpscaleAtOnce(a) == a.cl.pc \in { "prev", "cleared" }
\* <-p.prevUpscale can proceed
PrevUpscaleClosed(a) == a.cl.pc = "cleared"
\* <-p.prevUpscale, and the return of cleanup
ClPrev(id) ==
  /\ PrevUpscaleClosed(objs[id])
  /\ ClReturn(id, objs[id].cl.i)
  /\ UNCHANGED << archives, c, nl, nu, manga, tsz, s, fiff, panic, dblclose, closing,
                  mpc, armed, sem, sigdone, guidone, ncmd, nsz, obs, socks >>

\* ---------------------------------------------------------------------
\* main: the closing signal, the signal goroutine and the GUI
\* ---------------------------------------------------------------------
Quit ==
  /\ ~closing /\ closing' = TRUE
  /\ UNCHANGED << wvars, objs, mpc, armed, sem, sigdone, guidone, ncmd, nsz, obs, socks >>
SigExit ==
  /\ closing /\ ~sigdone /\ sigdone' = TRUE /\ wg' = wg - 1
  /\ UNCHANGED << archives, c, nl, nu, manga, tsz, s, fiff, panic, dblclose, objs,
                  closing, mpc, armed, sem, guidone, ncmd, nsz, obs, socks >>
GuiExit ==
  /\ closing /\ ~guidone /\ guidone' = TRUE /\ wg' = wg - 1
  /\ UNCHANGED << archives, c, nl, nu, manga, tsz, s, fiff, panic, dblclose, objs,
                  closing, mpc, armed, sem, sigdone, ncmd, nsz, obs, socks >>

WorkerOf(x) ==
  \/ WPre(x[1], x[2], x[3], obs) \/ WAcquire(x[1], x[2], x[3])
  \/ WWork(x[1], x[2], x[3], FALSE)
  \/ WSend(x[1], x[2], x[3]) \/ WFinish(x[1], x[2], x[3])
Closer == \E id \in DOMAIN objs : ClWait(id) \/ ClJoin(id) \/ ClDelete(id) \/ ClPrev(id)

\* The goroutines of a closed archive. The manager drops an archive from
\* m.archives when it closes it and reads none of its pages again; the
\* extractor, the load workers and the cleanup of a closed archive read and
\* write that archive only, and loadingSem, which a worker gives back in the
\* step after it took it. Their steps commute with the steps of the manager
\* and of the open archives.
Detached ==
  \/ \E x \in Workers : objs[x[1]].closed /\ WorkerOf(x)
  \/ \E id \in DOMAIN objs : objs[id].closed /\ ExStep(id)
  \/ Closer
\* no goroutine of a closed archive can step
Calm == ~ENABLED Detached
\* a goroutine of archive object id is scheduled: the goroutines of a
\* closed archive run as soon as they can
Sched(id) == objs[id].closed \/ Calm

\* the steps of the load workers
Loaders ==
  \/ \E x \in Workers : Sched(x[1]) /\ WPre(x[1], x[2], x[3], obs)
  \/ \E x \in Workers : Sched(x[1]) /\ WAcquire(x[1], x[2], x[3])
  \/ \E x \in Workers : Sched(x[1]) /\ WWork(x[1], x[2], x[3], FALSE)
  \/ \E x \in Workers : Sched(x[1]) /\ WSend(x[1], x[2], x[3])
  \/ \E x \in Workers : Sched(x[1]) /\ WFinish(x[1], x[2], x[3])
\* the same steps, watched: what each worker did at its selects is noted
LoadersSeen ==
  \/ \E x \in Workers :
       /\ Sched(x[1])
       /\ WPre(x[1], x[2], x[3],
               IF Cancelled(Wk(x[1], x[2], x[3])) THEN Ran("pre", FALSE) ELSE obs)
  \/ \E x \in Workers : Sched(x[1]) /\ WAcquire(x[1], x[2], x[3])
  \/ \E x \in Workers : Sched(x[1]) /\ WWork(x[1], x[2], x[3], TRUE)
  \/ \E x \in Workers : Sched(x[1]) /\ WSend(x[1], x[2], x[3])
  \/ \E x \in Workers : Sched(x[1]) /\ WFinish(x[1], x[2], x[3])
\* the steps of the extractors
Extractors == \E id \in DOMAIN objs : Sched(id) /\ ExStep(id)
\* the steps of the goroutines of archive.Close
Closers ==
  \/ \E id \in DOMAIN objs : ClWait(id)
  \/ \E id \in DOMAIN objs : ClJoin(id)
\* the steps of the goroutines of clearUpscale, and of cleanup after them
Clearers ==
  \/ \E id \in DOMAIN objs : ClDelete(id)
  \/ \E id \in DOMAIN objs : ClPrev(id)
Goroutines == Loaders \/ Extractors \/ Closers \/ Clearers
\* the iterations of the manager's loop that no input causes
Loop ==
  \/ Calm /\ MStartLoad
  \/ Calm /\ MLoadResult
  \/ Calm /\ MExtractResult

\* the program with a GUI that sends any command and resizes the window
Next ==
  \/ Goroutines
  \/ Loop
  \/ Calm /\ MSimpleCommand
  \/ Calm /\ MJump
  \/ Calm /\ MSize
  \/ Calm /\ MTimer
Spec == Init /\ [][Next]_vars

\* the program started in manga mode on the second archive, with a GUI that
\* only turns pages
InitTurn == InitWith({ Start(2, 0, TRUE) }, MaxTurns, 0)
NextTurn ==
  \/ Goroutines
  \/ Loop
  \/ Calm /\ MTurn
SpecTurn == InitTurn /\ [][NextTurn]_vars

\* the program started on the first archive, with a GUI that only resizes
\* the window: no archive is closed
InitResize == InitWith({ Start(1, 0, FALSE) }, 0, MaxResizes)
NextResize ==
  \/ Loaders
  \/ Extractors
  \/ Loop
  \/ MResize
  \/ MTimer
SpecResize == InitResize /\ [][NextResize]_vars

\* the program with a GUI that sends a command, and the shutdown at any moment
InitQuit == InitWith(Starts, MaxCmds, 0)
NextQuit ==
  \/ Goroutines
  \/ Loop
  \/ Calm /\ MSimpleCommand
  \/ Quit
  \/ Calm /\ MClosing
  \/ Calm /\ SigExit
  \/ Calm /\ GuiExit
SpecQuit == InitQuit /\ [][NextQuit]_vars

\* the program started on the first archive, whose pages all extract and
\* decode, with a GUI that reports the size of its window and sends nothing
\* else
InitIdle == InitWith({ Start(1, 0, mg) : mg \in BOOLEAN }, 0, MaxSizes)
NextIdle ==
  \/ Loaders
  \/ Extractors
  \/ Loop
  \/ MSize
  \/ MTimer
SpecIdle == InitIdle /\ [][NextIdle]_vars

\* the program started on the first archive, with a GUI that turns pages
\* and receives the states, a window that reports its size, and the loads the loop starts watched; the first
\* State is sent before the loop
InitStart ==
  StartsObs(InitWorld(Start(1, 0, FALSE)), MaxStarts, MaxSizes,
            Sent(InitWorld(Start(1, 0, FALSE)).s))
NextStart ==
  \/ Loaders
  \/ Extractors
  \/ Calm /\ MStartLoadSeen
  \/ Calm /\ MLoadResult
  \/ Calm /\ MExtractResult
  \/ Calm /\ MTurn
  \/ Calm /\ MSize
  \/ Calm /\ MTimer
  \/ Calm /\ MSendState
SpecStart == InitStart /\ [][NextStart]_vars

\* the program started on the first archive, with a GUI that only resizes
\* the window, the size events watched, and loadSyncUnscaled tried on the
\* current image as the program has it
Synced(li, e) ==
  [op |-> "sync", before |-> li.state, inflight |-> li.ws # << >>,
   after |-> loadSyncUnscaled(li, e).state, tsz |-> loadSyncUnscaled(li, e).tsz,
   dec |-> e.dec]
Syncs ==
  /\ AtSelect /\ HasPage(W, c) /\ GetPage(W, c).normal.state # "unwritten"
  /\ obs' = Synced(GetPage(W, c).normal, GetPage(W, c).ent)
  /\ obs' # obs
  /\ UNCHANGED << wvars, objs, closing, mpc, armed, sem, sigdone, guidone, ncmd, nsz, socks >>
InitSize == InitWith({ Start(1, 0, FALSE) }, 0, MaxResizes)
NextSize ==
  \/ Loaders
  \/ Extractors
  \/ Loop
  \/ MResizeSeen
  \/ MTimer
  \/ Syncs
SpecSize == InitSize /\ [][NextSize]_vars

\* ---------------------------------------------------------------------
\* manager.add on its own: any list of open archives, any cursor, any step
\* ---------------------------------------------------------------------
\* the lists of up to MaxOpen archive files (of 3, 0 and 2 pages)
OpenLists == UNION { [1..k -> {1, 3, 4}] : k \in 1..MaxOpen }
\* a manager whose m.archives are the files of fs
Opening(fs) ==
  [NewManager(Start(fs[1], 0, FALSE)) EXCEPT
     !.archives = [i \in 1..Len(fs) |-> i],
     !.objs = [i \in 1..Len(fs) |-> NewArchive(fs[i], 0, "preloading").a]]
\* the cursors with an archive index in range; the page index may be out of range
Cursors(w) ==
  UNION { { PI(a, p) : p \in -1..(PageCount(w, a) + 1) } : a \in 0..(Len(w.archives) - 1) }
\* add(pi, n), and add of its result and -n
Added(w, pi, n) ==
  [op |-> "add", pi |-> pi, n |-> n, r |-> add(w, pi, n),
   back |-> add(w, add(w, pi, n).pi, -n)]
InitAdd == \E fs \in OpenLists : StartsAs(Opening(fs), 0, 0)
Adds ==
  /\ \E pi \in Cursors(W) : \E n \in -MaxStep..MaxStep : obs' = Added(W, pi, n)
  /\ UNCHANGED << wvars, objs, closing, mpc, armed, sem, sigdone, guidone, ncmd, nsz, socks >>
NextAdd == Adds
SpecAdd == InitAdd /\ [][NextAdd]_vars

\* the program started in manga mode on the second archive, with a GUI that
\* moves by pages, goes to the last page and toggles manga mode
InitMove == InitWith({ Start(2, 0, TRUE) }, MaxMoves, 0)
NextMove ==
  \/ Goroutines
  \/ Loop
  \/ Calm /\ MRelMove
  \/ Calm /\ MLastPage
  \/ Calm /\ MMangaToggle
SpecMove == InitMove /\ [][NextMove]_vars

\* the program with a GUI that sends absolute jumps
InitJump == InitWith(Starts, MaxJumps, 0)
NextJump ==
  \/ Goroutines
  \/ Loop
  \/ Calm /\ MAbsJump
SpecJump == InitJump /\ [][NextJump]_vars

\* the program started on the first archive, with a GUI that turns pages,
\* the shutdown at any moment, and the load workers watched
InitLoad == InitWith({ Start(1, 0, FALSE) }, MaxLoads, 0)
NextLoad ==
  \/ LoadersSeen
  \/ Extractors
  \/ Closers
  \/ Clearers
  \/ Loop
  \/ Calm /\ MTurn
  \/ Quit
  \/ Calm /\ MClosing
  \/ Calm /\ SigExit
  \/ Calm /\ GuiExit
SpecLoad == InitLoad /\ [][NextLoad]_vars

\* the program started on the second archive, whose first page fails to
\* extract, with clients that send requests on the socket
InitSocket == InitWith({ Start(2, 0, FALSE) }, 0, 0)
NextSocket ==
  \/ Goroutines
  \/ Loop
  \/ Calm /\ MConn
  \/ Calm /\ MSocketCmd
  \/ Calm /\ GRun
  \/ Calm /\ MSockCommand
  \/ Calm /\ MPanic
  \/ Calm /\ MExec
  \/ Calm /\ ExecDone
  \/ Calm /\ SockReply
SpecSocket == InitSocket /\ [][NextSocket]_vars

\* ---------------------------------------------------------------------
\* The natural sorter (internal/natsort) on its own
\* ---------------------------------------------------------------------
\* a string is a TLA+ string; At(str, i) is its i-th byte
At(str, i) == SubSeq(str, i, i)
Has(str, ch) == \E i \in 1..Len(str) : At(str, i) = ch
Pos(str, ch) == CHOOSE i \in 1..Len(str) : At(str, i) = ch
Digits == "0123456789"
Upper == "ABCDEFGHIJKLMNOPQRSTUVWXYZ"
Lower == "abcdefghijklmnopqrstuvwxyz"
IsDigit(ch) == Has(Digits, ch)
\* the byte of a character: " ", "-", ".", ":", "_", digits and letters
Ord(ch) ==
  IF IsDigit(ch) THEN 47 + Pos(Digits, ch)
  ELSE IF Has(Upper, ch) THEN 64 + Pos(Upper, ch)
  ELSE IF Has(Lower, ch) THEN 96 + Pos(Lower, ch)
  ELSE IF ch = " " THEN 32 ELSE IF ch = "-" THEN 45 ELSE IF ch = "." THEN 46
  ELSE IF ch = ":" THEN 58 ELSE 95
\* strings.ToLower
RECURSIVE ToLower(_)
ToLower(str) ==
  IF str = "" THEN ""
  ELSE (IF Has(Upper, At(str, 1)) THEN At(Lower, Pos(Upper, At(str, 1))) ELSE At(str, 1))
         \o ToLower(SubSeq(str, 2, Len(str)))
\* a < b on strings: the order of their bytes
RECURSIVE StrLess(_, _)
StrLess(a, b) ==
  IF b = "" THEN FALSE
  ELSE IF a = "" THEN TRUE
  ELSE IF At(a, 1) # At(b, 1) THEN Ord(At(a, 1)) < Ord(At(b, 1))
  ELSE StrLess(SubSeq(a, 2, Len(a)), SubSeq(b, 2, Len(b)))

\* the first index from i on with a digit (want) or without, Len(str) + 1 if none
RECURSIVE Run(_, _, _)
Run(str, i, want) ==
  IF i > Len(str) \/ IsDigit(At(str, i)) = want THEN i ELSE Run(str, i + 1, want)
RECURSIVE Pow10(_)
Pow10(k) == IF k = 0 THEN 1 ELSE 10 * Pow10(k - 1)
\* the number the digits of t write, its "." left out
RECURSIVE DigitsValue(_)
DigitsValue(t) ==
  IF t = "" THEN 0
  ELSE IF At(t, Len(t)) = "." THEN DigitsValue(SubSeq(t, 1, Len(t) - 1))
  ELSE 10 * DigitsValue(SubSeq(t, 1, Len(t) - 1)) + Pos(Digits, At(t, Len(t))) - 1
\* strconv.ParseFloat of digits with an optional fraction: the value is
\* n / 10^k, which a float64 holds apart from any other value of these lengths
ParseFloat(t) ==
  [n |-> DigitsValue(t), k |-> IF Has(t, ".") THEN Len(t) - Pos(t, ".") ELSE 0]
FloatLess(x, y) == x.n * Pow10(y.k) < y.n * Pow10(x.k)
FloatEq(x, y) == x.n * Pow10(y.k) = y.n * Pow10(x.k)

\* the matches of floatRegex, (\D*)(\d+(\.\d+)?), in str from index i on, and
\* the rest of str as the last string segment
RECURSIVE floatRegex(_, _)
floatRegex(str, i) ==
  LET d == Run(str, i, TRUE)
      e == Run(str, d, FALSE)
      frac == e < Len(str) /\ At(str, e) = "." /\ IsDigit(At(str, e + 1))
      end == IF frac THEN Run(str, e + 1, FALSE) ELSE e
      rest == floatRegex(str, end)
  IN IF d > Len(str)
       THEN [stringSegments |-> << SubSeq(str, i, Len(str)) >>, floatSegments |-> << >>]
       ELSE [stringSegments |-> << SubSeq(str, i, d - 1) >> \o rest.stringSegments,
             floatSegments |-> << ParseFloat(SubSeq(str, d, end - 1)) >> \o rest.floatSegments]
\* parseString without strings.ToLower
parseStringCased(str) == floatRegex(str, 1)
parseString(str) == floatRegex(ToLower(str), 1)

\* the loop of compare from index i (from one) on
RECURSIVE compareFrom(_, _, _)
compareFrom(a, b, i) ==
  IF i > Len(a.stringSegments) THEN Len(b.stringSegments) > Len(a.stringSegments)
  ELSE IF i - 1 = Len(b.stringSegments) THEN FALSE
  ELSE IF a.stringSegments[i] # b.stringSegments[i]
    THEN StrLess(a.stringSegments[i], b.stringSegments[i])
  ELSE IF i - 1 = Len(a.floatSegments) THEN i - 1 # Len(b.floatSegments)
  ELSE IF i - 1 = Len(b.floatSegments) THEN FALSE
  ELSE IF ~FloatEq(a.floatSegments[i], b.floatSegments[i])
    THEN FloatLess(a.floatSegments[i], b.floatSegments[i])
  ELSE compareFrom(a, b, i + 1)
\* compare with its arguments exchanged
compareSwapped(a, b) == compareFrom(b, a, 1)
compare(a, b) == compareFrom(a, b, 1)
\* NaturalSorter.Compare
Compare(a, b) == compare(parseString(a), parseString(b))

\* the lists of Test_ExampleFiles
unsorted ==
  << "z1.doc", "z10.doc", "z100.5.doc", "z100.eoc", "z101.doc", "z102.doc", "z11.doc",
     "z12.doc", "z13.doc", "z14.doc", "z15.doc", "z16.doc", "z17.doc", "z18.doc",
     "z19.DOC", "z2.doc", "Z20.doc", "a3.doc", "z4.doc", "z4.5.doc", "z4.3.doc",
     "z4.75.doc", "z4.7.doc", "Z5.doc", "B6.DOC", "z7.doc", "c8.doc", "z9.doc" >>
sorted ==
  << "a3.doc", "B6.DOC", "c8.doc", "z1.doc", "z2.doc", "z4.doc", "z4.3.doc",
     "z4.5.doc", "z4.7.doc", "z4.75.doc", "Z5.doc", "z7.doc", "z9.doc", "z10.doc",
     "z11.doc", "z12.doc", "z13.doc", "z14.doc", "z15.doc", "z16.doc", "z17.doc",
     "z18.doc", "z19.DOC", "Z20.doc", "z100.eoc", "z100.5.doc", "z101.doc", "z102.doc" >>
\* permutations of the list: two of its names exchanged, turned round, or
\* the list in the order expected and in the opposite order
Swapped(l, i, j) == [l EXCEPT ![i] = l[j], ![j] = l[i]]
Reversed(l) == [i \in 1..Len(l) |-> l[Len(l) + 1 - i]]
Shuffles ==
  { Swapped(unsorted, i, j) : i, j \in 1..Len(unsorted) }
    \cup { Reversed(Swapped(unsorted, 1, j)) : j \in 1..Len(unsorted) }
    \cup { sorted, Reversed(sorted) }
\* sort.Slice(l, func(i, j int) bool { return ns.Compare(l[i], l[j]) })
Sorting(l) == [op |-> "sort", of |-> l, l |-> SortSeq(l, Compare)]
InitSort == InitWith({ Start(1, 0, FALSE) }, 0, 0)
Sorts ==
  /\ obs = NoObs
  /\ \E l \in Shuffles : obs' = Sorting(l)
  /\ UNCHANGED << wvars, objs, closing, mpc, armed, sem, sigdone, guidone, ncmd, nsz, socks >>
NextSort == Sorts
SpecSort == InitSort /\ [][NextSort]_vars

\* the strings the tests compare
Tested ==
  { "a", "b", "abc", "abcd", "abd", "ABC", "aBC", "Abd", "aBc", "AbD", "",
    "17", "16", "16.5", "4", "5", "16.7", "16:", "16.5:",
    "abc 10 abc 20", "abc 10 abc 16", "abc 10 abc 16.5", "abc 10 abd 16" }
\* the strings of up to n of the characters b, B, 0, 1 and "."
RECURSIVE Strings(_)
Strings(n) ==
  IF n = 0 THEN { "" }
  ELSE Strings(n - 1) \cup { str \o ch : str \in Strings(n - 1), ch \in {"b", "B", "0", "1", "."} }
Names == Strings(MaxLen) \cup Tested
\* what Compare returns for each pair of x, y and z, each parsed once as the
\* sorter's map of parsed strings has it
Compared(x, y, z) ==
  LET px == parseString(x)
      py == parseString(y)
      pz == parseString(z)
  IN [op |-> "compare", a |-> x, b |-> y, c |-> z,
      aa |-> compare(px, px), ab |-> compare(px, py), ba |-> compare(py, px),
      bc |-> compare(py, pz), cb |-> compare(pz, py), ac |-> compare(px, pz),
      ca |-> compare(pz, px), pa |-> px, pb |-> py]
InitCompare == InitWith({ Start(1, 0, FALSE) }, 0, 0)
\* a first string is picked
Picks ==
  /\ obs = NoObs
  /\ \E a \in Names : obs' = [op |-> "name", a |-> a]
  /\ UNCHANGED << wvars, objs, closing, mpc, armed, sem, sigdone, guidone, ncmd, nsz, socks >>
\* it is compared with any two others
Compares ==
  /\ obs.op = "name"
  /\ \E y, z \in Names : obs' = Compared(obs.a, y, z)
  /\ UNCHANGED << wvars, objs, closing, mpc, armed, sem, sigdone, guidone, ncmd, nsz, socks >>
NextCompare == Picks \/ Compares
SpecCompare == InitCompare /\ [][NextCompare]_vars

\* ---------------------------------------------------------------------
\* CalculateImageBounds on its own: any image in any box
\* ---------------------------------------------------------------------
\* the sides of images and of boxes, in pixels
ImageSides == 1..MaxSide \cup { 49, 1078, 2000, 3000 }
BoxSides == 1..MaxBox \cup { 600, 800 }
Bounded(img, size) ==
  [op |-> "bounds", img |-> img, size |-> size, b |-> CalculateImageBounds(img, size)]
InitBounds == InitWith({ Start(1, 0, FALSE) }, 0, 0)
Bounds ==
  /\ obs = NoObs
  /\ \E ix, iy \in ImageSides : \E cx, cy \in BoxSides :
       obs' = Bounded(<< ix, iy >>, << cx, cy >>)
  /\ UNCHANGED << wvars, objs, closing, mpc, armed, sem, sigdone, guidone, ncmd, nsz, socks >>
NextBounds == Bounds
SpecBounds == InitBounds /\ [][NextBounds]_vars

\* ---------------------------------------------------------------------
\* Properties
\* ---------------------------------------------------------------------
\* every page of every archive object
Pages == UNION { { <<id, i>> : i \in 1..Len(objs[id].pages) } : id \in DOMAIN objs }

\* C3: every payload the manager has accepted for an image came from the
\* worker of the most recent load or rescale of that image: no image has
\* accepted the payload of a superseded or detached load
C3_AcceptedFromLatestLoad == \A x \in Pages : ~Li(x[1], x[2]).stale
\* an image is loaded while a worker that unload detached from it, and that
\* has sent its payload on the channel it was started with, is still around
C3_Witness ==
  \E x \in Pages :
    /\ Li(x[1], x[2]).state = "loaded"
    /\ \E k \in 1..Len(Li(x[1], x[2]).ws) :
         /\ Wk(x[1], x[2], k).can /\ ~Wk(x[1], x[2], k).live
         /\ Wk(x[1], x[2], k).pc = "fin" /\ Wk(x[1], x[2], k).ch # Li(x[1], x[2]).gen

\* C5: the send of a load worker never blocks: whenever a worker is about to
\* send its payload, the channel it was started with has room for it. (A
\* worker leaves its image's list of workers only after that one send.)
C5_SendNeverBlocks ==
  \A x \in Workers :
    Wk(x[1], x[2], x[3]).pc = "send" => SendReady(Li(x[1], x[2]), Wk(x[1], x[2], x[3]))
\* a cancelled worker is about to send while a later load of the same image
\* has a worker that has not sent yet
C5_Witness ==
  \E x \in Workers :
    /\ Wk(x[1], x[2], x[3]).pc = "send" /\ Wk(x[1], x[2], x[3]).can
    /\ \E k \in (x[3] + 1)..Len(Li(x[1], x[2]).ws) : Wk(x[1], x[2], k).pc # "fin"

\* the pages of the archive-backed archives and their extract channels
ExtractedPages == { x \in Pages : objs[x[1]].kind # "directory" }
Ech(x) == objs[x[1]].pages[x[2]].ech
\* C4: the extract channel of every page of an archive is closed exactly
\* once: it is never closed twice, and it is not left open once the extractor
\* has terminated
C4_ClosedExactlyOnce ==
  \A x \in ExtractedPages :
    /\ Ech(x).closes <= 1
    /\ objs[x[1]].exdone => Ech(x).closes = 1
\* the rest of what C4 states: exactly one boolean is sent on the channel
\* before it is closed, none after
OneBooleanBeforeClose ==
  \A x \in ExtractedPages :
    /\ Ech(x).sent <= 1 /\ ~Ech(x).sac
    /\ objs[x[1]].exdone => Ech(x).sent = 1
\* what the code does: at most one boolean, sent before the close
AtMostOneBooleanBeforeClose ==
  \A x \in ExtractedPages : Ech(x).sent <= 1 /\ ~Ech(x).sac /\ Ech(x).closes <= 1

\* cleanup has returned for page p
CleanedUp(p) == EchReady(p.ech) /\ ~LiHasImageData(p.normal) /\ p.normal.ws = << >>
C7_ShutdownCompletes ==
  (closing /\ mpc = "done" /\ sigdone /\ guidone /\ ~ENABLED Goroutines)
    => (DOMAIN objs = {} /\ wg = 0)

\* the pages of [c, c + PreloadAhead]
AheadWindow ==
  { pi \in { add(W, c, k).pi : k \in 0..PreloadAhead } : HasPage(W, pi) /\ ~gt(c, pi) }
\* the image of page pi has been decoded and scaled: the manager holds it, or
\* it waits in the load channel
Decoded(pi) ==
  \/ GetPage(W, pi).normal.state = "loaded"
  \/ GetPage(W, pi).normal.state = "loading" /\ GetPage(W, pi).normal.buf.full
\* the program has come to rest: the GUI has sent the size and sends nothing
\* more, the debounce timer is not running, the manager waits in its select
\* with no load result and no extraction result to receive, and no load
\* worker and no extractor can step
AtRest ==
  /\ nsz = 0 /\ ~armed
  /\ AtSelect /\ ~LoadResultReady /\ ~ExtractResultReady
  /\ ~ENABLED Loaders /\ ~ENABLED Extractors
OpenPages == { pi \in UNION { { PI(a, p) : p \in 0..(PageCount(W, a) - 1) } :
                              a \in 0..(Len(archives) - 1) } : TRUE }
\* pi lies outside [c - PreloadBehind, c + PreloadAhead]
OutsideWindow(pi) ==
  \/ gt(add(W, c, -PreloadBehind).pi, pi)
  \/ gt(pi, add(W, c, PreloadAhead).pi)

\* C2: every page of every open archive outside the window
\* [c - PreloadBehind, c + PreloadAhead] holds no image data
C2_OutsideWindowUnloaded ==
  \A pi \in OpenPages : OutsideWindow(pi) => ~LiHasImageData(GetPage(W, pi).normal)

\* C1: at the top of every iteration of the manager's loop, if the current
\* page is still extracting, or its image is unwritten or loadable, then
\* nl = c: none of the loop's assertions panics
C1_AssertionsNeverPanic == mpc = "loop" => AssertionsHold(W)
\* the manager is at the top of its loop after a move to a page that is
\* still being extracted, and nl is that page
C1_Witness ==
  /\ mpc = "loop" /\ HasPage(W, c) /\ c.p > 0
  /\ GetPage(W, c).state = "extracting" /\ nl = c

ValidIndex(pi) == ~GetPanics(W, pi)
C10_IndicesValid ==
  /\ ValidIndex(c) /\ ValidIndex(nl) /\ ValidIndex(nu) /\ ~panic
  /\ (mpc = "loop" /\ s.alen > 0) => (1 <= s.pn /\ s.pn <= s.alen /\ s.pn = c.p + 1)
\* after a move the current index is slot 0 of an archive without pages, with
\* another archive open beside it
C10_Witness ==
  /\ mpc = "loop" /\ ncmd < MaxCmds /\ Len(archives) > 1
  /\ PageCount(W, c.a) = 0 /\ c.p = 0 /\ s.alen = 0 /\ ValidIndex(nl)

\* pi designates a page of the open archives or slot 0 of one without pages
ValidCursor(w, pi) ==
  /\ pi.a >= 0 /\ pi.a < Len(w.archives)
  /\ HasPage(w, pi) \/ (PageCount(w, pi.a) = 0 /\ pi.p = 0)
\* the last page of archive a, slot 0 when it has none
LastSlot(w, a) == PI(a, Max(PageCount(w, a) - 1, 0))
\* C11: if pi is valid and add(pi, n) is valid then add(add(pi, n), -n) = pi;
\* an archive without pages is exactly one slot: a step by +1 from it ends on
\* the first slot of the next archive, a step by -1 on the last slot of the
\* previous one, and a step by +1 from the last slot before it ends on it
C11_AddRoundTrip ==
  (obs.op = "add" /\ ValidCursor(W, obs.pi)) =>
    /\ obs.r.ok => (obs.back.pi = obs.pi /\ obs.back.ok)
    /\ (PageCount(W, obs.pi.a) = 0 /\ obs.n = 1 /\ obs.pi.a < Len(archives) - 1)
          => (obs.r.ok /\ obs.r.pi = PI(obs.pi.a + 1, 0))
    /\ (PageCount(W, obs.pi.a) = 0 /\ obs.n = -1 /\ obs.pi.a > 0)
          => (obs.r.ok /\ obs.r.pi = LastSlot(W, obs.pi.a - 1))
    /\ (obs.n = 1 /\ obs.pi = LastSlot(W, obs.pi.a) /\ obs.pi.a < Len(archives) - 1
          /\ PageCount(W, obs.pi.a + 1) = 0)
          => (obs.r.ok /\ obs.r.pi = PI(obs.pi.a + 1, 0))
\* a move that went over an archive without pages into a third archive and
\* came back
C11_Witness ==
  /\ obs.op = "add" /\ ValidCursor(W, obs.pi) /\ obs.r.ok
  /\ obs.r.pi.a = obs.pi.a + 2 /\ PageCount(W, obs.pi.a + 1) = 0
  /\ PageCount(W, obs.pi.a) > 0 /\ obs.back.pi = obs.pi

\* C12: for a cursor with an archive index in range, add returns an archive
\* index in [0, len(archives) - 1], and its flag is true exactly when the
\* page index it returns designates a page of that archive or is slot 0 of
\* an archive without pages
C12_AddFlagExact ==
  obs.op = "add" =>
    /\ obs.r.pi.a >= 0 /\ obs.r.pi.a <= Len(archives) - 1
    /\ obs.r.ok <=> ValidCursor(W, obs.r.pi)
\* add from a cursor whose page index is out of range ended on slot 0 of an
\* archive without pages
C12_Witness ==
  /\ obs.op = "add" /\ ~ValidCursor(W, obs.pi) /\ obs.r.ok
  /\ PageCount(W, obs.r.pi.a) = 0 /\ obs.r.pi.a # obs.pi.a

\* the page a move by d from page p ends on in an archive of n pages
Clamped(p, d, n) == Min(Max(p + d, 0), n - 1)
\* the signed number of pages of a relative move
Delta(arg) == IF arg.sign = "-" THEN -arg.n ELSE arg.n
\* the last command was a relative move made with manga mode off in an
\* archive that has pages
RelMoved == obs.op = "move" /\ obs.arg.sign # "" /\ ~obs.manga /\ obs.n > 0
\* C13: with manga mode off, a relative move by n pages leaves the current
\* archive as it was and sets the current page to min(max(p + n, 0), page_count - 1)
C13_RelativeMoveClamps ==
  RelMoved =>
    /\ archives[c.a + 1] = obs.id
    /\ c.p = Clamped(obs.c.p, Delta(obs.arg), obs.n)

\* the last command was an absolute jump
AbsJumped == obs.op = "move" /\ obs.arg.sign = ""
\* C14 as stated: an absolute jump to N leaves the current archive as it was
\* and sets the current page to min(max(N - 1, 0), page_count - 1)
C14_AbsoluteJumpMinMax ==
  AbsJumped =>
    /\ archives[c.a + 1] = obs.id
    /\ c.p = Min(Max(obs.arg.n - 1, 0), obs.n - 1)
\* C14 amended: an absolute jump to N leaves the current archive as it was
\* and sets the current page to max(min(N - 1, page_count - 1), 0), which is
\* slot 0 in an archive without pages
C14_AbsoluteJumpClamps ==
  AbsJumped =>
    /\ archives[c.a + 1] = obs.id
    /\ c.p = Max(Min(obs.arg.n - 1, obs.n - 1), 0)
\* an absolute jump past the last page was made in manga mode with another
\* archive open, and ended on the last page of the archive
C14_Witness ==
  /\ AbsJumped /\ obs.manga /\ obs.arg.n > obs.n /\ obs.n > 1
  /\ Len(archives) > 1 /\ c.p = obs.n - 1 /\ archives[c.a + 1] = obs.id

\* the connections that carry an action request
Actions == { k \in 1..Len(socks) : socks[k].req # "status" }
\* C15: every action request gets exactly one outcome: at most one error is
\* sent on its reply channel, before the close; the channel is closed at
\* most once, and it is closed once the handler is done with the request, so
\* that the client is written exactly one response
C15_OneOutcome ==
  \A k \in Actions :
    /\ socks[k].ch.sent <= 1 /\ ~socks[k].ch.bad
    /\ socks[k].ch.closes <= 1 /\ Len(socks[k].resp) <= 1
    /\ socks[k].st = "handled" => socks[k].ch.closes = 1

Holders == { x \in Workers : Wk(x[1], x[2], x[3]).pc = "held" }
C18_SortedDistinctPaths ==
  \A id \in DOMAIN objs :
    \A i, j \in 1..Len(objs[id].pages) :
      i < j => /\ PathLeq(objs[id].pages[i].path, objs[id].pages[j].path)
               /\ objs[id].pages[i].path # objs[id].pages[j].path
\* the place of name x in list l
Place(l, x) == CHOOSE i \in 1..Len(l) : l[i] = x
\* C19: sorting a permutation of the sample list yields the order the test
\* expects, with z1.doc first, z102.doc last and z100.eoc before z100.5.doc
C19_SortsFirstZ1 ==
  obs.op = "sort" =>
    /\ obs.l = sorted
    /\ obs.l[1] = "z1.doc" /\ obs.l[Len(obs.l)] = "z102.doc"
    /\ Place(obs.l, "z100.eoc") < Place(obs.l, "z100.5.doc")
\* the same with a3.doc first and z1.doc the first of the names in z
C19_SortsCanonical ==
  obs.op = "sort" =>
    /\ obs.l = sorted
    /\ obs.l[1] = "a3.doc" /\ obs.l[Len(obs.l)] = "z102.doc"
    /\ \A i \in 1..Len(obs.l) : ToLower(At(obs.l[i], 1)) = "z" => Place(obs.l, "z1.doc") <= i
    /\ Place(obs.l, "z100.eoc") < Place(obs.l, "z100.5.doc")
    /\ Place(obs.l, "z4.doc") < Place(obs.l, "Z5.doc")
    /\ Place(obs.l, "z19.DOC") < Place(obs.l, "Z20.doc")
\* a permutation that is not in order has been sorted
C19_Witness == obs.op = "sort" /\ obs.of # sorted /\ obs.l = sorted

\* the tokens of a parsed string, in the order compare reads them
Tokens(p) == Len(p.stringSegments) + Len(p.floatSegments)
\* the tokens of p and q before the last string segment of p are equal
SamePrefix(p, q) ==
  /\ Len(p.stringSegments) <= Len(q.stringSegments)
  /\ \A i \in 1..Len(p.floatSegments) :
       /\ p.stringSegments[i] = q.stringSegments[i]
       /\ FloatEq(p.floatSegments[i], q.floatSegments[i])
\* C20: Compare is a strict weak ordering: irreflexive, asymmetric,
\* transitive, with "neither is less" transitive, and of two strings whose
\* tokens are equal as far as the shorter sequence goes the shorter is less
C20_StrictWeakOrdering ==
  obs.op = "compare" =>
    /\ ~obs.aa
    /\ ~(obs.ab /\ obs.ba)
    /\ (obs.ab /\ obs.bc) => obs.ac
    /\ (~obs.ab /\ ~obs.ba /\ ~obs.bc /\ ~obs.cb) => (~obs.ac /\ ~obs.ca)
    /\ (/\ SamePrefix(obs.pa, obs.pb) /\ Tokens(obs.pa) < Tokens(obs.pb)
        /\ obs.pa.stringSegments[Len(obs.pa.stringSegments)]
             = obs.pb.stringSegments[Len(obs.pa.stringSegments)])
         => (obs.ab /\ ~obs.ba)
\* three different strings in a row, and a string less than one that has
\* more tokens and the same first ones
C20_Witness ==
  /\ obs.op = "compare" /\ obs.ab /\ obs.bc /\ obs.ac
  /\ Tokens(obs.pa) < Tokens(obs.pb) /\ SamePrefix(obs.pa, obs.pb)
\* the image of obs fits in the box / exceeds it
Fits == obs.img[1] <= obs.size[1] /\ obs.img[2] <= obs.size[2]
Sample == obs.op = "bounds" /\ obs.img = << 3000, 2000 >> /\ obs.size = << 800, 600 >>
\* C21: CalculateImageBounds((3000, 2000), (800, 600)) is (900, 600), and an
\* image that fits in the box keeps its size
C21_SampleIs900 ==
  /\ Sample => obs.b = << 900, 600 >>
  /\ (obs.op = "bounds" /\ Fits) => obs.b = obs.img
\* the same with (800, 533) for the sample
C21_SampleIs800 ==
  /\ Sample => obs.b = << 800, 533 >>
  /\ (obs.op = "bounds" /\ Fits) => obs.b = obs.img
C21_Witness == Sample /\ obs.b[1] = obs.size[1]

\* C22: the bounds of an image that exceeds the box fit in the box, keep
\* the aspect ratio up to the truncation to whole pixels, and touch the box
\* on an edge
C22_FitsAndTouches ==
  (obs.op = "bounds" /\ ~Fits) =>
    /\ obs.b[1] <= obs.size[1] /\ obs.b[2] <= obs.size[2]
    /\ obs.b[1] * obs.img[2] - obs.b[2] * obs.img[1] > 0 - obs.img[2]
    /\ obs.b[1] * obs.img[2] - obs.b[2] * obs.img[1] < obs.img[1]
    /\ obs.b[1] = obs.size[1] \/ obs.b[2] = obs.size[2]
\* the changes of state of a loadable image: MarkExtracted, load,
\* MarkLoaded, rescale, loadSyncUnscaled and unload
LiSteps ==
  { << "unwritten", "loadable" >>, << "unwritten", "failed" >>,
    << "loadable", "loading" >>, << "loading", "loaded" >>, << "loading", "failed" >>,
    << "loaded", "loading" >>, << "loadable", "loaded" >>, << "loadable", "failed" >>,
    << "loading", "loadable" >>, << "loaded", "loadable" >> }
\* the image of page i of archive object id changes state as LiSteps has it
\* in this step, and a load that starts from another state than loadable
\* has the image to rescale
LiStepsOnly(id, i) ==
  LET old == objs[id].pages[i].normal
      new == objs'[id].pages[i].normal
  IN /\ old.state = new.state \/ << old.state, new.state >> \in LiSteps
     /\ Len(new.ws) > Len(old.ws) =>
          (old.state = "loadable" \/ new.ws[Len(new.ws)].img.has)
\* C23: a loadable image makes no other change of state than those of
\* LiSteps, and an asynchronous load of the file starts from loadable only
C23_OnlyListedSteps ==
  [][\A id \in DOMAIN objs \cap DOMAIN objs' :
       \A i \in 1..Len(objs[id].pages) : LiStepsOnly(id, i)]_vars
\* an image that was loaded is loading again with its image in hand, and
\* another image has failed
C23_Witness ==
  \E id \in DOMAIN objs : \E i, j \in 1..Len(objs[id].pages) :
    /\ objs[id].pages[i].normal.state = "loading"
    /\ objs[id].pages[i].normal.msi.has
    /\ objs[id].pages[j].normal.state = "failed"
\* C24: loadSyncUnscaled on an image that is loading leaves it loaded or
\* failed, with the payload of the load; on a loadable image it decodes at
\* natural size and leaves it loaded with target size (0, 0)
C24_SyncWaitsOrDecodes ==
  obs.op = "sync" =>
    /\ obs.before = "loading" => obs.after \in {"loaded", "failed"}
    /\ (obs.before = "loadable" /\ obs.dec) => (obs.after = "loaded" /\ obs.tsz = ZP)

\* C25: a size event that finds the current image ready to load, once the
\* stale images are invalidated, leaves it loaded at natural size, or
\* loading again to be rescaled, before the timer is set
C25_SizeLoadsCurrent ==
  (obs.op = "size" /\ obs.ready) => obs.after \in {"loaded", "loading", "failed"}
\* C26: the loop starts a load for nl only when no load of the current page
\* is in flight or the current page is page 0, no State waits to be sent,
\* and the image of nl is ready to load
C26_StartsLoadOnlyWhen ==
  obs.op = "start" =>
    /\ ~obs.inflight \/ obs.first
    /\ ~obs.pending
    /\ obs.ready

\* the program started in manga mode on the second archive, with a GUI that
\* toggles manga mode and turns pages, and a window that reports its size
InitManga == InitWith({ Start(2, 0, TRUE) }, MaxToggles, MaxSizes)
NextManga ==
  \/ Goroutines
  \/ Loop
  \/ Calm /\ MMangaToggle
  \/ Calm /\ MTurn
  \/ Calm /\ MSize
  \/ Calm /\ MTimer
SpecManga == InitManga /\ [][NextManga]_vars

\* ---------------------------------------------------------------------
\* page.clearUpscale on its own: a page in any state, the result of an
\* upscale in progress sent before the call or after it, the files of its
\* two images present or not
\* ---------------------------------------------------------------------
PageStates == { "extracting", "extracted", "upscaling", "upscaled" }
\* the files of p.normal and of p.upscale
PageFiles == { "normal", "upscaled" }
\* removeFile(f)
removeFile(files, f) == files \ { f }
\* li.Delete() of the upscaled image: newUpscaledImage is deletable
DeleteUpscale(o) == [o EXCEPT !.files = removeFile(o.files, "upscaled")]
\* li.Delete() of the normal image: log.Panicln if it is not deletable
DeleteNormal(o) ==
  IF o.deletable THEN [o EXCEPT !.files = removeFile(o.files, "normal")]
  ELSE [o EXCEPT !.panic = TRUE]
\* a page before clearUpscale: up is the buffer of p.upscaleCh, pu tells
\* whether p.prevUpscale is closed, deletable is p.normal.deletable, ustate
\* is p.upscale.state; was and had keep the state and the files the call
\* found, got is what the goroutine received
Clearing(st, ust, del, files) ==
  [op |-> "clear", pc |-> "call", state |-> st, was |-> st, up |-> "none", pu |-> TRUE,
   ustate |-> ust, deletable |-> del, files |-> files, had |-> files, got |-> "none",
   panic |-> FALSE]
\* the body of clearUpscale up to its go statements
PgCleared(o) ==
  IF o.state \in { "extracting", "extracted" } THEN [o EXCEPT !.pc = "done"]
  ELSE [o EXCEPT !.pc = IF o.state = "upscaling" THEN "wait" ELSE "delete",
                 !.pu = FALSE, !.state = "extracted"]
\* go func() { defer close(pu); b := <-oldUp; if b { ...; p.normal.Delete() } }()
PgWaited(o) ==
  [(IF o.up = "t" THEN DeleteNormal([o EXCEPT !.ustate = "loadable"]) ELSE o)
     EXCEPT !.pc = "done", !.pu = TRUE, !.got = o.up]
\* go func() { defer close(pu); p.upscale.Delete() }()
PgDeleted(o) == [DeleteUpscale(o) EXCEPT !.pc = "done", !.pu = TRUE]

InitClear ==
  \E st \in PageStates : \E ust \in { "unwritten", "loadable", "loaded", "failed" } :
    \E del \in BOOLEAN : \E files \in SUBSET PageFiles :
      StartsObs(InitWorld(Start(1, 0, FALSE)), 0, 0, Clearing(st, ust, del, files))
Observes(o) ==
  /\ obs' = o
  /\ UNCHANGED << wvars, objs, closing, mpc, armed, sem, sigdone, guidone, ncmd, nsz, socks >>
\* p.clearUpscale()
PgClear == obs.pc = "call" /\ Observes(PgCleared(obs))
\* the upscaler sends its result on the channel the page had when it began
PgUpscaled ==
  /\ obs.was = "upscaling" /\ obs.up = "none" /\ obs.got = "none"
  /\ \E b \in { "t", "f" } : Observes([obs EXCEPT !.up = b])
\* the goroutine of the branch of upscaling receives and ends
PgWait == obs.pc = "wait" /\ obs.up # "none" /\ Observes(PgWaited(obs))
\* the goroutine of the branch of upscaled ends
PgDelete == obs.pc = "delete" /\ Observes(PgDeleted(obs))
NextClear ==
  \/ PgClear
  \/ PgUpscaled
  \/ PgWait
  \/ PgDelete
SpecClear == InitClear /\ [][NextClear]_vars

\* the images of the pages of every archive object
Images ==
  UNION { { objs[id].pages[i].normal : i \in 1..Len(objs[id].pages) } : id \in DOMAIN objs }
\* case <-resizeDebounce.C has run for the last size received
TimerFired == ~armed /\ tsz # ZP
\* C27: once the timer has fired for the last size S and no load is waiting
\* to be accepted, every image with image data has the bounds
\* CalculateImageBounds(original bounds, S), whatever sizes came before; and
\* a load in flight, or a payload in a load channel, is for S or unscaled
C27_BoundsOfLastSize ==
  TimerFired =>
    /\ (\A li \in Images : ~LiIsLoading(li)) =>
         \A li \in Images :
           LiHasImageData(li) => li.msi.b = CalculateImageBounds(li.msi.ob, tsz)
    /\ \A li \in Images :
         LiIsLoading(li) =>
           /\ li.tsz \in { ZP, tsz }
           /\ (li.buf.full /\ li.buf.m.has) =>
                li.buf.m.b \in { li.buf.m.ob, CalculateImageBounds(li.buf.m.ob, tsz) }
\* two sizes were received, the timer has fired, every load was accepted and
\* an image is held scaled down
C27_Witness ==
  /\ TimerFired /\ nsz = 0
  /\ \A li \in Images : ~LiIsLoading(li)
  /\ \E li \in Images : LiHasImageData(li) /\ li.msi.b # li.msi.ob

\* the extractor has sent on the channel or closed it
Resolved(e) == e.sent > 0 \/ e.closes > 0
\* cleanup of page i of archive object id returns in this step
Returns(id, i) ==
  /\ objs[id].cl.pc \in { "join", "prev", "cleared" } /\ objs[id].cl.i = i
  /\ id \in DOMAIN objs' => objs'[id].cl.i # i
\* C28: cleanup of a page returns only when its extract channel has resolved,
\* every load worker started for the page has finished and the goroutine of
\* clearUpscale has closed p.prevUpscale (loads are started on the normal
\* image only: m.upscaling is never set)
C28_CleanupWaits ==
  [][\A id \in DOMAIN objs : \A i \in 1..Len(objs[id].pages) :
       Returns(id, i) =>
         /\ Resolved(objs[id].pages[i].ech)
         /\ objs[id].pages[i].normal.ws = << >>
         /\ objs[id].cl.pc # "prev"]_vars
\* cleanup has returned for a page whose extraction failed: its upscale was
\* cleared and the goroutine of clearUpscale was waited for
C28_Witness ==
  \E id \in DOMAIN objs : \E i \in 1..Len(objs[id].pages) :
    /\ objs[id].cl.pc \in { "ex", "join", "prev", "cleared" } /\ i < objs[id].cl.i
    /\ objs[id].pages[i].state = "extracted" /\ objs[id].pages[i].deletable
    /\ ~objs[id].pages[i].ent.ok

LoadStarts(id, i) ==
  /\ objs[id].pages[i].normal.state = "loadable"
  /\ id \in DOMAIN objs' /\ objs'[id].pages[i].normal.state = "loading"
\* C30: while manga mode is off no load is started for a page outside the
\* current archive, and no archive is opened
C30_MangaOffStaysHome ==
  [][~manga =>
       /\ \A id \in DOMAIN objs : \A i \in 1..Len(objs[id].pages) :
            LoadStarts(id, i) => id = archives[c.a + 1]
       /\ ~manga' => DOMAIN objs' \subseteq DOMAIN objs]_vars

\* ---------------------------------------------------------------------
\* Preloading past a page that fails
\* ---------------------------------------------------------------------
\* the program started on an image or on an archive whose entries have
\* distinct paths, in either mode, with a GUI that reports the size of its
\* window and sends nothing else
DistinctPaths(f) ==
  \A i, j \in 1..Len(Files[f].ents) : Files[f].ents[i].path = Files[f].ents[j].path => i = j
InitFail ==
  InitWith({ st \in Starts : st.f = 0 \/ DistinctPaths(st.f) }, 0, MaxSizes)
NextFail ==
  \/ Loaders
  \/ Extractors
  \/ Calm /\ MStartLoad
  \/ Calm /\ MLoadResult
  \/ Calm /\ MExtractResult
  \/ Calm /\ MSize
  \/ Calm /\ MTimer
SpecFail == InitFail /\ [][NextFail]_vars

\* the extraction of page pi succeeds: the manager has seen it succeed, or
\* the extractor has sent true on the page's channel
ExtractionSucceeds(pi) ==
  LET p == GetPage(W, pi) IN
    \/ p.state = "extracted"
    \/ p.state = "extracting" /\ EchReady(p.ech) /\ EchValue(p.ech)
\* a load has been started for page pi: Load leaves the image loading, and
\* from there it becomes loaded or failed
LoadStarted(pi) ==
  GetPage(W, pi).state = "extracted"
    /\ GetPage(W, pi).normal.state \in {"loading", "loaded", "failed"}

\* C31: with the size of the window known and no input left, once the
\* program has come to rest a load has been started for every page of
\* [c - PreloadBehind, c + PreloadAhead] whose extraction succeeds
C31_WindowLoadsStarted ==
  (tsz # ZP /\ ncmd = 0 /\ AtRest) =>
    \A pi \in OpenPages : (~OutsideWindow(pi) /\ ExtractionSucceeds(pi)) => LoadStarted(pi)

\* the pages of the archive objects, as (object, index from one)
PageSlots ==
  UNION { { << id, i >> : i \in 1..Len(objs[id].pages) } : id \in DOMAIN objs }
\* the manager marks page x as failed to extract in this step: only
\* MarkExtracted(false) takes a page from extracting to upscaled
FailsExtraction(x) ==
  /\ x[1] \in DOMAIN objs'
  /\ objs[x[1]].pages[x[2]].state = "extracting"
  /\ objs'[x[1]].pages[x[2]].state = "upscaled"

\* C32: in the step that marks a page as failed to extract, the page's normal
\* and upscaled images both become failed and every other page of every
\* archive is left as it was
C32_FailureIsLocal ==
  [][\A x \in PageSlots : FailsExtraction(x) =>
       /\ objs'[x[1]].pages[x[2]].normal.state = "failed"
       /\ objs'[x[1]].pages[x[2]].upscale = "failed"
       /\ DOMAIN objs' = DOMAIN objs
       /\ \A y \in PageSlots \ {x} : objs'[y[1]].pages[y[2]] = objs[y[1]].pages[y[2]]]_vars
\* a page has been marked as failed to extract while the page after it,
\* whose extraction succeeds, is still extracting
C32_Witness ==
  \E x \in PageSlots :
    /\ objs[x[1]].pages[x[2]].state = "upscaled"
    /\ objs[x[1]].pages[x[2]].normal.state = "failed"
    /\ objs[x[1]].pages[x[2]].upscale = "failed"
    /\ \E y \in PageSlots \ {x} :
         /\ y[1] = x[1] /\ objs[y[1]].pages[y[2]].state = "extracting"
         /\ EchReady(objs[y[1]].pages[y[2]].ech)

\* C33: an image that is failed stays failed in every step, whatever the
\* manager, the load workers and the closers do, and no load is started for
\* it: no worker is added to those of the image; a failed upscaled image
\* stays failed as well
C33_FailedStaysFailed ==
  [][\A x \in PageSlots :
       LET old == objs[x[1]].pages[x[2]] IN
       x[1] \in DOMAIN objs' =>
         LET new == objs'[x[1]].pages[x[2]] IN
         /\ old.normal.state = "failed" =>
              (new.normal.state = "failed" /\ Len(new.normal.ws) <= Len(old.normal.ws))
         /\ old.upscale = "failed" => new.upscale = "failed"]_vars
\* an image has failed to decode, the user has since moved to another page
\* and the window has been resized: the page was unloaded by the move, and
\* invalidated and offered for rescaling when the timer fired
C33_Witness ==
  /\ ncmd = 0 /\ TimerFired /\ nsz = 0
  /\ \E x \in PageSlots :
       /\ objs[x[1]].pages[x[2]].state = "extracted"
       /\ objs[x[1]].pages[x[2]].normal.state = "failed"
       /\ archives[c.a + 1] = x[1] /\ c.p + 1 # x[2]

\* ---------------------------------------------------------------------
\* closeUnusedArchives, watched at its call in afterMove
\* ---------------------------------------------------------------------
Movers == { "FirstPage", "LastPage", "NextArchive", "PrevArchive" }
\* the manager as cmd hands it to afterMove, with m.c moved; ok is false
\* when cmd returns without calling afterMove
afterMoveOf(w, cmd) ==
  CASE cmd = "FirstPage" -> [ok |-> w.c.p # 0, w |-> [w EXCEPT !.c.p = 0]]
    [] cmd = "LastPage" ->
         LET p == Max(PageCount(w, w.c.a) - 1, 0) IN
         [ok |-> w.c.p # p, w |-> [w EXCEPT !.c.p = p]]
    [] cmd = "NextArchive" ->
         LET o == IF w.c.a = Len(w.archives) - 1
                    THEN openNextArchive(w, "waitingOnFirst") ELSE [ok |-> TRUE, w |-> w]
         IN [ok |-> o.ok, w |-> [o.w EXCEPT !.c = PI(o.w.c.a + 1, 0)]]
    [] cmd = "PrevArchive" ->
         LET o == IF w.c.a = 0
                    THEN openPreviousArchive(w, "waitingOnFirst") ELSE [ok |-> TRUE, w |-> w]
         IN [ok |-> o.ok, w |-> [o.w EXCEPT !.c = PI(o.w.c.a - 1, 0)]]
\* afterMove up to its unloads, which leave m.archives and the cursors alone:
\* the manager as closeUnusedArchives finds it
atClose(w) == findNextImageToLoad(resetNext(pollCurrent(Got(w, w.c))))
\* m.archives and the cursors
Held(w) == [archives |-> w.archives, c |-> w.c, nl |-> w.nl, nu |-> w.nu]
\* what the observer records of a call of closeUnusedArchives: the list and
\* the cursors before it (of x) and after it (of w1), and its arguments
Closed(x, w1) ==
  [op |-> "close", pre |-> Held(x), post |-> Held(w1),
   newStart |-> add(x, x.c, -PreloadBehind).pi, newEnd |-> add(x, x.c, PreloadAhead).pi]
\* a command that moves to an end of the archive or to a neighbouring archive
MCloseMove ==
  \E cmd \in Movers :
    Command(simpleCommands(W, cmd),
            IF afterMoveOf(W, cmd).ok
              THEN Closed(atClose(afterMoveOf(W, cmd).w), simpleCommands(W, cmd))
              ELSE obs)

\* the program started in manga mode on the first or the second archive,
\* with a GUI that moves between archives and to the ends of them, and the
\* shutdown of the manager at any moment after the last of its commands
InitClose == InitWith({ Start(1, 0, TRUE), Start(2, 0, TRUE) }, MaxCloses, 0)
NextClose ==
  \/ Goroutines
  \/ Loop
  \/ Calm /\ MCloseMove
  \/ ncmd = 0 /\ Quit
  \/ Calm /\ MClosing
SpecClose == InitClose /\ [][NextClose]_vars

\* the archives of the pages from newStart to newEnd, as indices of the list
\* before the call
WindowArchives(o) ==
  { a \in 0..(Len(o.pre.archives) - 1) : o.newStart.a <= a /\ a <= o.newEnd.a }
\* the list after the call is the list before it without its first lo and
\* all but its first hi archives, those kept include the archives of c, of nl
\* and of the window, and the cursors are moved down by lo archives
KeptRange(o, lo, hi) ==
  /\ o.post.archives = SubSeq(o.pre.archives, lo + 1, hi)
  /\ \A a \in {o.pre.c.a, o.pre.nl.a} \cup WindowArchives(o) : lo <= a /\ a < hi
  /\ o.post.c = PI(o.pre.c.a - lo, o.pre.c.p)
  /\ o.post.nl = PI(o.pre.nl.a - lo, o.pre.nl.p)
  /\ o.post.nu = PI(o.pre.nu.a - lo, o.pre.nu.p)

\* C34: closeUnusedArchives leaves a contiguous part of m.archives that holds
\* the archives of c, of nl and of the pages from newStart to newEnd, with c,
\* nl and nu on the pages they were on; and Close is never called on an
\* archive that was closed before
C34_ClosesUnusedOnly ==
  /\ ~dblclose
  /\ obs.op = "close" =>
       \E lo \in 0..Len(obs.pre.archives) : \E hi \in lo..Len(obs.pre.archives) :
         KeptRange(obs, lo, hi)
\* a call has closed an archive at the low end of the list while nl was not
\* on the current page, and the manager has since shut down
C34_Witness ==
  /\ obs.op = "close" /\ mpc = "done"
  /\ obs.post.archives # << >>
  /\ obs.post.archives[1] # obs.pre.archives[1]
  /\ obs.pre.nl # obs.pre.c
\* a call has closed an archive at the high end of the list
C34_WitnessHigh ==
  /\ obs.op = "close"
  /\ obs.post.archives # << >>
  /\ obs.post.archives[Len(obs.post.archives)] # obs.pre.archives[Len(obs.pre.archives)]

\* ---------------------------------------------------------------------
\* openNextArchive and openPreviousArchive, watched at their calls in
\* nextArchive and prevArchive
\* ---------------------------------------------------------------------
\* the file openNextArchive (next) or openPreviousArchive finds beside the
\* archive at the end of m.archives, 0 for none
Sibling(w, next) ==
  LET a == w.objs[w.archives[IF next THEN Len(w.archives) ELSE 1]] IN
  IF a.kind = "directory" THEN 0
  ELSE IF next THEN AfterInDir(a.f) ELSE BeforeInDir(a.f)
\* what the observer records of the call: the file found and whether it can
\* be read, the result (ok: not nil), m.archives and the cursors before and
\* after the call, and the pages of the archive at the end of the list after it
Opens(w, next, o) ==
  [op |-> "open", next |-> next, sib |-> Sibling(w, next),
   failed |-> Sibling(w, next) # 0 /\ Files[Sibling(w, next)].kind = "unknown",
   ok |-> o.ok, pre |-> Held(w), post |-> Held(o.w),
   n |-> PageCount(o.w, IF next THEN Len(o.w.archives) - 1 ELSE 0)]
\* NextArchive or PrevArchive; the open is called when m.c is in the archive
\* at that end of the list
MOpenMove ==
  \/ Command(simpleCommands(W, "NextArchive"),
             IF c.a = Len(archives) - 1
               THEN Opens(W, TRUE, openNextArchive(W, "waitingOnFirst")) ELSE obs)
  \/ Command(simpleCommands(W, "PrevArchive"),
             IF c.a = 0
               THEN Opens(W, FALSE, openPreviousArchive(W, "waitingOnFirst")) ELSE obs)

\* the program with a GUI that moves to the next and the previous archive
InitOpen == InitWith(Starts, MaxCloses, 0)
NextOpen ==
  \/ Goroutines
  \/ Loop
  \/ Calm /\ MOpenMove
SpecOpen == InitOpen /\ [][NextOpen]_vars

\* C36 as stated: when the file beside the boundary archive cannot be read,
\* the open reports no archive and leaves m.archives and the cursors alone
C36_OpenFailureHalts ==
  (obs.op = "open" /\ obs.failed) => (~obs.ok /\ obs.post = obs.pre)
\* the cursor pi after n archives were put in front of the list
Shifted(pi, n) == PI(pi.a + n, pi.p)
\* C36 amended: when the file beside the boundary archive cannot be read,
\* the open still returns an archive, one without pages, which is added to
\* m.archives at that end; the cursors stay on the pages they were on
C36_OpenFailureAddsEmpty ==
  (obs.op = "open" /\ obs.failed) =>
    /\ obs.ok /\ obs.n = 0
    /\ Len(obs.post.archives) = Len(obs.pre.archives) + 1
    /\ LET k == IF obs.next THEN 0 ELSE 1 IN
       /\ SubSeq(obs.post.archives, k + 1, k + Len(obs.pre.archives)) = obs.pre.archives
       /\ obs.post.c = Shifted(obs.pre.c, k)
       /\ obs.post.nl = Shifted(obs.pre.nl, k)
       /\ obs.post.nu = Shifted(obs.pre.nu, k)
\* NextArchive has made the manager open a file that cannot be read
C36_Witness == obs.op = "open" /\ obs.failed /\ obs.next /\ obs.ok

\* the extractor of archive a has sent the result of page i
Produced(a, i) == a.pages[i].ech.sent > 0
\* C37: in an archive opened with a page to wait on (ex.fast, the initial
\* page, or the last page for waitingOnLast), no other page's result is
\* produced before the result of that page
C37_PrioritizedPageFirst ==
  \A id \in DOMAIN objs :
    LET a == objs[id] IN
    (a.kind # "directory" /\ a.ex.fast > 0) =>
      \A i \in 1..Len(a.pages) : Produced(a, i) => Produced(a, a.ex.fast)
\* the same for the archives whose entries have distinct paths
C37_PrioritizedDistinct ==
  \A id \in DOMAIN objs :
    LET a == objs[id] IN
    (a.kind # "directory" /\ a.ex.fast > 0 /\ DistinctPaths(a.f)) =>
      \A i \in 1..Len(a.pages) : Produced(a, i) => Produced(a, a.ex.fast)

\* the program started on the first archive, with a GUI that only resizes
\* the window, and the shutdown of the manager at any moment
InitJoin == InitWith({ Start(1, 0, FALSE) }, 0, MaxResizes)
NextJoin ==
  \/ Goroutines
  \/ Loop
  \/ MResize
  \/ MTimer
  \/ Quit
  \/ Calm /\ MClosing
SpecJoin == InitJoin /\ [][NextJoin]_vars

\* the cleanup of page x returns from p.normal.join() in this step
JoinReturns(x) ==
  /\ objs[x[1]].cl.pc = "join" /\ objs[x[1]].cl.i = x[2]
  /\ x[1] \in DOMAIN objs' => objs'[x[1]].cl # objs[x[1]].cl
\* C38: a load worker closes its completion handle only when it has sent its
\* payload and it is the oldest worker of the image that has not closed its
\* handle, and join returns only when no worker of the image is left
C38_HandlesCloseInOrder ==
  [][\A x \in PageSlots :
       LET old == objs[x[1]].pages[x[2]].normal IN
       /\ JoinReturns(x) => old.ws = << >>
       /\ x[1] \in DOMAIN objs' =>
            LET new == objs'[x[1]].pages[x[2]].normal IN
            Len(new.ws) < Len(old.ws) => (old.ws[1].pc = "fin" /\ new.ws = Tail(old.ws))]_vars
\* the cleanup of a page waits in join while a later load of its image has
\* sent its payload and waits for the handle of an earlier load, whose
\* worker has not sent yet
C38_Witness ==
  \E x \in PageSlots :
    LET li == objs[x[1]].pages[x[2]].normal IN
    /\ objs[x[1]].cl.pc = "join" /\ objs[x[1]].cl.i = x[2]
    /\ Len(li.ws) >= 2 /\ li.ws[2].pc = "fin" /\ li.ws[1].pc # "fin"

\* the manager has received a command its maps hold no handler for, and run
\* has ended in log.Panicln
Panicked ==
  \E k \in 1..Len(socks) : socks[k].st = "handled" /\ socks[k].req \in Unhandled
\* C39: every command forwarded to the manager has a handler in its maps,
\* and run never ends in the panic for a command without handler
C39_EveryCommandHandled ==
  /\ \A k \in 1..Len(socks) : socks[k].st = "command" => socks[k].req \notin Unhandled
  /\ ~Panicked

\* ---------------------------------------------------------------------
\* The jump dialog: a client asks for "Jump", the GUI opens the dialog with
\* the reply channel of the connection, and the text typed into the dialog
\* is sent to the manager as the argument of a Jump command
\* ---------------------------------------------------------------------
\* the texts typed into the dialog
JumpTexts ==
  { "", "2", "-1", "1x", "+", "00000000000000000001",
    "9223372036854775808", "99999999999999999999" }
\* the digits of ds without the zeros they begin with
RECURSIVE TrimZeros(_)
TrimZeros(ds) ==
  IF ds # "" /\ At(ds, 1) = "0" THEN TrimZeros(SubSeq(ds, 2, Len(ds))) ELSE ds
\* strconv.Atoi of a string of digits, int being 64 bits wide: a value above
\* 9223372036854775807 is out of range
Atoi(ds) ==
  LET t == TrimZeros(ds)
      max == "9223372036854775807"
  IN IF Len(t) > Len(max) \/ (Len(t) = Len(max) /\ StrLess(max, t))
       THEN [err |-> TRUE, n |-> 0]
       ELSE [err |-> FALSE, n |-> DigitsValue(t)]
\* the expression without its "$": digits at the start of arg match
jumpReUnanchored(arg) ==
  LET sign == IF arg # "" /\ At(arg, 1) \in { "+", "-" } THEN At(arg, 1) ELSE ""
      from == Len(sign) + 1
      end == Run(arg, from, FALSE)
  IN [ok |-> end > from, sign |-> sign, digits |-> SubSeq(arg, from, end - 1)]
\* jumpRe.FindStringSubmatch(arg) for ^(\+|-)?(\d+)$; ok FALSE: no match
jumpRe(arg) ==
  LET sign == IF arg # "" /\ At(arg, 1) \in { "+", "-" } THEN At(arg, 1) ELSE ""
      from == Len(sign) + 1
      end == Run(arg, from, FALSE)
  IN [ok |-> end > from /\ end = Len(arg) + 1, sign |-> sign,
      digits |-> SubSeq(arg, from, end - 1)]
\* jump(arg) on the text of the argument: the two returns with an error come
\* before anything of the manager is touched
jumpText(w, arg) ==
  LET match == jumpRe(arg)
      j == Atoi(match.digits)
  IN IF ~match.ok \/ j.err THEN [w |-> w, err |-> TRUE]
     ELSE [w |-> jump(w, [sign |-> match.sign, n |-> j.n]), err |-> FALSE]

\* "Jump" arrives on a connection, showJumpDialog(ch) opens the dialog, and
\* Return sends UserCommand{Cmd: Jump, Arg: t, Ch: ch}; the user opens one
\* dialog at a time
GJumpDialog ==
  /\ AtSelect /\ Len(socks) < MaxTexts /\ FirstAt("jump") = 0
  /\ \E t \in JumpTexts : socks' = Append(socks, [Conn(t) EXCEPT !.st = "jump"])
  /\ UNCHANGED << wvars, objs, closing, mpc, armed, sem, sigdone, guidone, ncmd, nsz, obs >>
\* case uc := <-m.commandChan for the Jump of the dialog: err := f(uc.Arg),
\* the select that sends the error, close(uc.Ch), and m.updateState()
MJumpText ==
  /\ AtSelect /\ FirstAt("jump") # 0
  /\ LET k == FirstAt("jump")
         r == jumpText(W, socks[k].req)
     IN \E skip \in BOOLEAN :
          /\ skip => closing
          /\ socks' = [socks EXCEPT ![k] = Reply(socks[k], r.err, skip)]
          /\ SetW(updateState(r.w))
  /\ mpc' = "loop"
  /\ UNCHANGED << closing, armed, sem, sigdone, guidone, ncmd, nsz, obs >>

\* the program started on the first archive, with clients that open the jump
\* dialog, a user who types into it, and the shutdown while a Jump of the
\* dialog waits for the manager
InitDialog == InitWith({ Start(1, 0, FALSE) }, 0, 0)
NextDialog ==
  \/ Goroutines
  \/ Loop
  \/ Calm /\ GJumpDialog
  \/ Calm /\ MJumpText
  \/ Calm /\ SockReply
  \/ FirstAt("jump") # 0 /\ Quit
  \/ Calm /\ MClosing
SpecDialog == InitDialog /\ [][NextDialog]_vars

\* t is a string of one or more decimal digits
Decimal(t) == t # "" /\ \A i \in 1..Len(t) : IsDigit(At(t, i))
\* t is an optionally signed decimal integer
SignedDecimal(t) ==
  \/ Decimal(t)
  \/ Len(t) > 1 /\ At(t, 1) \in { "+", "-" } /\ Decimal(SubSeq(t, 2, Len(t)))
\* the digits of t, its sign left out
DigitsOf(t) == IF t # "" /\ At(t, 1) \in { "+", "-" } THEN SubSeq(t, 2, Len(t)) ELSE t
\* t is not an optionally signed decimal integer, or its digits overflow an int
BadJump(t) == ~SignedDecimal(t) \/ Atoi(DigitsOf(t)).err
\* the manager handles the Jump of connection k in this step
JumpHandled(k) ==
  k \in 1..Len(socks) /\ socks[k].st = "jump" /\ socks'[k].st = "handled"
\* the step leaves current, nl, the list of archives and the pages as they were
Untouched == c' = c /\ nl' = nl /\ archives' = archives /\ objs' = objs
\* the error is on the reply channel of connection x, sent before the close
Delivered(x) == x.ch.sent = 1 /\ ~x.ch.bad /\ x.ch.closes = 1

\* C40 as stated: a jump whose argument is not an optionally signed decimal
\* integer, or whose digits overflow an int, delivers an error on the reply
\* channel before the channel is closed, and leaves current, nl, the archive
\* list and the pages unchanged
C40_BadJumpReported ==
  [][\A k \in 1..MaxTexts :
       (JumpHandled(k) /\ BadJump(socks[k].req)) => (Delivered(socks'[k]) /\ Untouched)]_vars
\* C40 amended: the error is delivered before the close unless the closing
\* signal has been given, when the channel may be closed without the error;
\* the channel is closed once, no error is sent after the close, and current,
\* nl, the archive list and the pages are unchanged in either case
C40_BadJumpReportedUnlessClosing ==
  [][\A k \in 1..MaxTexts :
       (JumpHandled(k) /\ BadJump(socks[k].req)) =>
         /\ ~closing => Delivered(socks'[k])
         /\ socks'[k].ch.sent <= 1 /\ ~socks'[k].ch.bad /\ socks'[k].ch.closes = 1
         /\ Untouched]_vars
\* a text that is no integer and a text whose digits overflow have both been
\* handled, the error of each delivered before the close of its channel
C40_Witness ==
  /\ \E k \in 1..Len(socks) :
       socks[k].st = "handled" /\ ~SignedDecimal(socks[k].req) /\ Delivered(socks[k])
  /\ \E k \in 1..Len(socks) :
       /\ socks[k].st = "handled" /\ SignedDecimal(socks[k].req)
       /\ Atoi(DigitsOf(socks[k].req)).err /\ Delivered(socks[k])
====
